---- MODULE Spec2Model ----
(***************************************************************************)
(* A model of the hsa-runtime crate: the dispatch ring (Queue and          *)
(* KernelDispatch::dispatch), Queue::create and MemoryRegion::allocate.    *)
(* Every producer thread is a program counter walking the statements of    *)
(* KernelDispatch::dispatch in source order; the write index, the read     *)
(* index, the doorbell and the packet ring are the shared state.           *)
(***************************************************************************)
EXTENDS Integers, Sequences, FiniteSets, TLC

\* ------------------------------------------------------------------ bounds
\* Producer threads that may run KernelDispatch::dispatch concurrently.
NumProducers == 2
\* Dispatches started in one run, over all producers.
MaxDispatches == 3
\* log2 of the capacity of the queue the dispatches go to.
QueueSizeLog2 == 1

\* ------------------------------------------------------- program constants
\* The values the generated bindings give the names dispatch uses (hsa.h).
HSA_PACKET_TYPE_KERNEL_DISPATCH == 2
HSA_PACKET_HEADER_TYPE == 0
HSA_PACKET_HEADER_SCACQUIRE_FENCE_SCOPE == 9
HSA_PACKET_HEADER_SCRELEASE_FENCE_SCOPE == 11
HSA_FENCE_SCOPE_SYSTEM == 2
HSA_KERNEL_DISPATCH_PACKET_SETUP_DIMENSIONS == 0

\* ------------------------------------------------------------ bit helpers
RECURSIVE Pow2(_)
Pow2(n) == IF n = 0 THEN 1 ELSE 2 * Pow2(n - 1)

RECURSIVE BitAnd(_, _)
BitAnd(a, b) ==
    IF a = 0 \/ b = 0 THEN 0
    ELSE 2 * BitAnd(a \div 2, b \div 2) + (IF a % 2 = 1 /\ b % 2 = 1 THEN 1 ELSE 0)

RECURSIVE BitOr(_, _)
BitOr(a, b) ==
    IF a = 0 THEN b
    ELSE IF b = 0 THEN a
    ELSE 2 * BitOr(a \div 2, b \div 2) + (IF a % 2 = 1 \/ b % 2 = 1 THEN 1 ELSE 0)

\* The elements of a sequence.
Range(seq) == { seq[i] : i \in 1 .. Len(seq) }

\* (v as u16) << n, in 16 bits
Shl16(v, n) == (v * Pow2(n)) % 65536

\* ------------------------------------------------------------- the packet
PacketFields ==
    { "header", "setup",
      "workgroup_size_x", "workgroup_size_y", "workgroup_size_z",
      "grid_size_x", "grid_size_y", "grid_size_z",
      "kernel_object", "kernarg_address",
      "private_segment_size", "group_segment_size", "completion_signal" }

\* std::ptr::write_bytes(packet_ptr, 0, 1)
ZeroPacket == [f \in PacketFields |-> 0]

\* A slot holding whatever an earlier occupant left (no field is zero).
StalePacket == [f \in PacketFields |-> 1]

\* Mutant of Dimensions: the comparisons are >= instead of >.
DimensionsInclusive(grid) ==
    IF grid[3] >= 1 THEN 3
    ELSE IF grid[2] >= 1 THEN 2
    ELSE 1

\* let dimensions = if grid.2 > 1 {3} else if grid.1 > 1 {2} else {1}
Dimensions(grid) ==
    IF grid[3] > 1 THEN 3
    ELSE IF grid[2] > 1 THEN 2
    ELSE 1

\* packet_ptr.setup = (dimensions as u16) << SETUP_DIMENSIONS
SetupValue(d) ==
    Shl16(Dimensions(d.grid_size), HSA_KERNEL_DISPATCH_PACKET_SETUP_DIMENSIONS)

\* packet_ptr.header = type << TYPE | system << SCACQUIRE | system << SCRELEASE
HeaderValue ==
    BitOr(BitOr(Shl16(HSA_PACKET_TYPE_KERNEL_DISPATCH, HSA_PACKET_HEADER_TYPE),
                Shl16(HSA_FENCE_SCOPE_SYSTEM, HSA_PACKET_HEADER_SCACQUIRE_FENCE_SCOPE)),
          Shl16(HSA_FENCE_SCOPE_SYSTEM, HSA_PACKET_HEADER_SCRELEASE_FENCE_SCOPE))

\* The value dispatch assigns to packet field f, for the KernelDispatch d
\* (d.completion_signal is the handle of the Signal passed to dispatch).
FieldValue(f, d) ==
    CASE f = "setup" -> SetupValue(d)
      [] f = "header" -> HeaderValue
      [] f = "workgroup_size_x" -> d.workgroup_size[1]
      [] f = "workgroup_size_y" -> d.workgroup_size[2]
      [] f = "workgroup_size_z" -> d.workgroup_size[3]
      [] f = "grid_size_x" -> d.grid_size[1]
      [] f = "grid_size_y" -> d.grid_size[2]
      [] f = "grid_size_z" -> d.grid_size[3]
      [] f = "kernel_object" -> d.kernel_object
      [] f = "kernarg_address" -> d.kernarg_address
      [] f = "private_segment_size" -> d.private_segment_size
      [] f = "group_segment_size" -> d.group_segment_size
      [] f = "completion_signal" -> d.completion_signal

\* Mutant of StepOrder: the write index is stored before the completion
\* signal is written.
StepOrderEarlyPublish ==
    << "add_write_index", "clear", "setup", "header",
       "workgroup_size_x", "workgroup_size_y", "workgroup_size_z",
       "grid_size_x", "grid_size_y", "grid_size_z",
       "kernel_object", "kernarg_address",
       "private_segment_size", "group_segment_size",
       "store_write_index", "completion_signal", "doorbell" >>

\* Mutant of StepOrder: dispatch returns after the write index store.
StepOrderNoDoorbell ==
    << "add_write_index", "clear", "setup", "header",
       "workgroup_size_x", "workgroup_size_y", "workgroup_size_z",
       "grid_size_x", "grid_size_y", "grid_size_z",
       "kernel_object", "kernarg_address",
       "private_segment_size", "group_segment_size", "completion_signal",
       "store_write_index" >>

\* The statements of KernelDispatch::dispatch that touch shared state, in
\* source order.
StepOrder ==
    << "add_write_index", "clear", "setup", "header",
       "workgroup_size_x", "workgroup_size_y", "workgroup_size_z",
       "grid_size_x", "grid_size_y", "grid_size_z",
       "kernel_object", "kernarg_address",
       "private_segment_size", "group_segment_size", "completion_signal",
       "store_write_index", "doorbell" >>

NumSteps == Len(StepOrder)

\* ------------------------------------------------------------------ state
VARIABLES
    size,          \* hsa_queue_t.size, the capacity of the ring
    write_index,   \* the queue's write index
    read_index,    \* the queue's read index, advanced by the device
    doorbell,      \* value of the queue's doorbell signal
    ring,          \* the packet slots, 0 .. size-1
    pc,            \* per producer: 0 outside dispatch, else the next step
    packet_id,     \* per producer: the local packet_id of dispatch
    disp,          \* per producer: the KernelDispatch being dispatched
    wrote,         \* per producer: the steps this dispatch has executed
    ndisp,         \* dispatch calls made so far
    rsv,           \* per caller of add_write_index alone: the value returned
    w0,            \* the write index before those calls
    api_in,        \* the arguments and runtime answers of one API call
    api_result,    \* what that call returned
    api_calls,     \* the runtime functions that call invoked, in order
    mem,           \* the Memory value allocate returned: its ptr and size
    mem_state,     \* "none", "live" (owned by the caller) or "dropped"
    mem_op,        \* the last method called on the Memory, with its outcome
    mem_log,       \* the runtime calls made for the Memory since allocate
    access,        \* the agents the runtime has granted access to the address
    sig,           \* the Signal value create returned: its handle
    sig_state,     \* "none", "live" or "dropped"
    sig_value,     \* the runtime's value of the signal
    sig_op,        \* the last Signal::create or drop, with its outcome
    sig_log,       \* the runtime create and destroy calls made
    wait,          \* the thread inside Signal::wait_*: where it is, what it got
    ctx,           \* the HsaContext: "none", "live" or "dropped"
    ctx_log,       \* the runtime calls made by the drop of the HsaContext
    ctx_regions,   \* the HsaContext's three region fields (0: None)
    runs,          \* the same Queue calls run with HSA_DEBUG set and unset
    chk,           \* per producer: the backpressure check it makes before dispatch
    ex,            \* the example program: its statement, live locals and calls
    exe,           \* an Executable: its reader field, the readers made and destroyed
    que_val        \* the Queue value Queue::create returned, and its destroy calls

queueVars == << size, write_index, read_index, doorbell, ring >>

producerVars == << pc, packet_id, disp, wrote, ndisp >>

reserveVars == << rsv, w0 >>

apiVars == << api_in, api_result, api_calls >>

memVars == << mem, mem_state, mem_op, mem_log, access >>

signalVars == << sig, sig_state, sig_value, sig_op, sig_log, wait >>

ctxVars == << ctx, ctx_log, ctx_regions >>

debugVars == << runs >>

callerVars == << chk, ex >>

ownedVars == << exe, que_val >>

laterVars == << memVars, signalVars, ctxVars, debugVars, callerVars, ownedVars >>

vars == << queueVars, producerVars, reserveVars, apiVars, laterVars >>

Producers == 1 .. NumProducers

QueueSize == Pow2(QueueSizeLog2)

\* The launch geometries used by the single-producer specification.
GridValues == {1, 2, 64}

Grids == { <<x, y, z>> : x \in GridValues, y \in GridValues, z \in GridValues }

KernelDispatchOf(wg, grid) ==
    [ kernel_object |-> 7, kernarg_address |-> 8,
      workgroup_size |-> wg, grid_size |-> grid,
      private_segment_size |-> 3, group_segment_size |-> 4,
      completion_signal |-> 9 ]

AllDispatches ==
    { KernelDispatchOf(wg, g) : wg \in { <<1, 1, 1>>, <<64, 2, 1>> }, g \in Grids }

FewDispatches ==
    { KernelDispatchOf(<<64, 1, 1>>, g) : g \in { <<64, 1, 1>>, <<64, 64, 64>> } }

NoDispatch == KernelDispatchOf(<<0, 0, 0>>, <<0, 0, 0>>)

\* Mutant of Slot: the slot after the one the index maps to.
SlotOffByOne(i) == (i + 1) % size

\* packet_id % queue_ptr.size
Slot(i) == i % size

\* Packets reserved or about to be, and not yet consumed by the device.
Outstanding == ndisp - read_index

\* ------------------------------------------------ results of the API calls
Ok == [ok |-> TRUE, kind |-> "Ok"]

Err(kind) == [ok |-> FALSE, kind |-> kind]

NotCalled == [ok |-> FALSE, kind |-> "not called"]

NoInput == [op |-> "none"]

\* Threads that call Queue::add_write_index on its own.
NumCallers == 3

Callers == 1 .. NumCallers

IdleReserve ==
    /\ rsv = [c \in Callers |-> -1]
    /\ w0 = 0

IdleApi ==
    /\ api_in = NoInput
    /\ api_result = NotCalled
    /\ api_calls = << >>

\* No Memory value exists.
NoMemory == [ptr |-> 0, size |-> 0]

NoOp == [op |-> "none"]

IdleMem ==
    /\ mem = NoMemory
    /\ mem_state = "none"
    /\ mem_op = NoOp
    /\ mem_log = << >>
    /\ access = {}

\* No thread is inside a wait.
NoWait == [pc |-> "idle"]

IdleSignal ==
    /\ sig = 0
    /\ sig_state = "none"
    /\ sig_value = 0
    /\ sig_op = NoOp
    /\ sig_log = << >>
    /\ wait = NoWait

\* No HsaContext value exists.
NoRegions == [kernarg |-> 0, fine |-> 0, coarse |-> 0]

IdleCtx == ctx = "none" /\ ctx_log = << >> /\ ctx_regions = NoRegions

\* The two runs have made no call.
NoRun == [write_index |-> 0, calls |-> << >>, results |-> << >>, stderr |-> << >>]

IdleDebug == runs = [debug \in BOOLEAN |-> NoRun]

\* The producer is not inside a backpressure check.
NoCheck == [pc |-> "idle", w |-> 0, r |-> 0]

\* The example program has not started.
NoExample == [pc |-> 0, live |-> {}, log |-> << >>, result |-> "none"]

IdleCaller == chk = [p \in 1 .. NumProducers |-> NoCheck] /\ ex = NoExample

\* No Executable exists.
NoExecutable == [state |-> "none", reader |-> 0, made |-> 0, loads |-> 0, destroyed |-> << >>]

\* No Queue value exists.
NoQueue == [state |-> "none", ptr |-> 0, destroyed |-> << >>]

IdleOwned == exe = NoExecutable /\ que_val = NoQueue

IdleLater == IdleMem /\ IdleSignal /\ IdleCtx /\ IdleDebug /\ IdleCaller /\ IdleOwned

Step(p) == IF pc[p] \in 1 .. NumSteps THEN StepOrder[pc[p]] ELSE "none"

InitQueue(rings) ==
    /\ size = QueueSize
    /\ write_index = 0
    /\ read_index = 0
    /\ doorbell = 0
    /\ ring \in rings
    /\ pc = [p \in Producers |-> 0]
    /\ packet_id = [p \in Producers |-> 0]
    /\ disp = [p \in Producers |-> NoDispatch]
    /\ wrote = [p \in Producers |-> << >>]
    /\ ndisp = 0
    /\ IdleReserve
    /\ IdleApi
    /\ IdleLater

\* -------------------------------------------------------------- Queue API
\* Mutant of AddWriteIndexResult: the new value is returned, not the old.
AddWriteIndexResultNew(old, value) == old + value

\* Queue::add_write_index: hsa_queue_add_write_index_relaxed is one atomic
\* fetch-and-add; the old value is returned.
AddWriteIndexResult(old, value) == old

\* Queue::store_write_index(value): a plain store of value.
StoreWriteIndexValue(old, value) == value

\* ------------------------------------------------------- dispatch, by step
Advance(p, step) ==
    /\ pc' = [pc EXCEPT ![p] = pc[p] + 1]
    /\ wrote' = [wrote EXCEPT ![p] = Append(wrote[p], step)]

\* A caller enters dispatch(queue, completion_signal) with one KernelDispatch.
\* Callers keep at most `size` packets outstanding.
Begin(p, choices) ==
    /\ pc[p] = 0
    /\ ndisp < MaxDispatches
    /\ Outstanding < size
    /\ \E d \in choices : disp' = [disp EXCEPT ![p] = d]
    /\ pc' = [pc EXCEPT ![p] = 1]
    /\ wrote' = [wrote EXCEPT ![p] = << >>]
    /\ ndisp' = ndisp + 1
    /\ UNCHANGED << reserveVars, apiVars, laterVars, size, write_index, read_index, doorbell, ring, packet_id >>

\* let packet_id = queue.add_write_index(1);
Reserve(p) ==
    /\ Step(p) = "add_write_index"
    /\ packet_id' = [packet_id EXCEPT ![p] = AddWriteIndexResult(write_index, 1)]
    /\ write_index' = write_index + 1
    /\ Advance(p, "add_write_index")
    /\ UNCHANGED << reserveVars, apiVars, laterVars, size, read_index, doorbell, ring, disp, ndisp >>

\* Mutant of ClearedPacket: the clear starts after the header.
ClearedPacketKeepsHeader(old) == [ZeroPacket EXCEPT !["header"] = old["header"]]

\* std::ptr::write_bytes(packet_ptr, 0, 1);
ClearedPacket(old) == ZeroPacket

Clear(p) ==
    /\ Step(p) = "clear"
    /\ ring' = [ring EXCEPT ![Slot(packet_id[p])] = ClearedPacket(@)]
    /\ Advance(p, "clear")
    /\ UNCHANGED << reserveVars, apiVars, laterVars, size, write_index, read_index, doorbell, packet_id, disp, ndisp >>

\* packet_ptr.<field> = ...;
WriteField(p) ==
    /\ Step(p) \in PacketFields
    /\ ring' = [ring EXCEPT ![Slot(packet_id[p])][Step(p)] = FieldValue(Step(p), disp[p])]
    /\ Advance(p, Step(p))
    /\ UNCHANGED << reserveVars, apiVars, laterVars, size, write_index, read_index, doorbell, packet_id, disp, ndisp >>

\* queue.store_write_index(packet_id + 1);
StoreWriteIndex(p) ==
    /\ Step(p) = "store_write_index"
    /\ write_index' = StoreWriteIndexValue(write_index, packet_id[p] + 1)
    /\ Advance(p, "store_write_index")
    /\ UNCHANGED << reserveVars, apiVars, laterVars, size, read_index, doorbell, ring, packet_id, disp, ndisp >>

\* Mutant of DoorbellValue: the index after the packet is stored.
DoorbellValueNext(id) == id + 1

\* Mutant of DoorbellValue: the ring slot is stored, not the packet index.
DoorbellValueSlot(id) == Slot(id)

\* packet_id as i64: the value stored into the doorbell signal (the cast
\* changes no index below 2^63).
DoorbellValue(id) == id

\* hsa_signal_store_relaxed(queue_ptr.doorbell_signal, packet_id as i64);
RingDoorbell(p) ==
    /\ Step(p) = "doorbell"
    /\ doorbell' = DoorbellValue(packet_id[p])
    /\ Advance(p, "doorbell")
    /\ UNCHANGED << reserveVars, apiVars, laterVars, size, write_index, read_index, ring, packet_id, disp, ndisp >>

\* Ok(())
Return(p) ==
    /\ pc[p] = NumSteps + 1
    /\ pc' = [pc EXCEPT ![p] = 0]
    /\ UNCHANGED << reserveVars, apiVars, laterVars, size, write_index, read_index, doorbell, ring,
                    packet_id, disp, wrote, ndisp >>

\* The device takes the packet at the read index once the write index
\* covers it.
DeviceConsume ==
    /\ read_index < write_index
    /\ read_index' = read_index + 1
    /\ UNCHANGED << reserveVars, apiVars, laterVars, size, write_index, doorbell, ring, pc, packet_id, disp, wrote, ndisp >>

DispatchStep(p) ==
    \/ Reserve(p)
    \/ Clear(p)
    \/ WriteField(p)
    \/ StoreWriteIndex(p)
    \/ RingDoorbell(p)
    \/ Return(p)

\* ---------------------------------------- concurrent producers, one queue
InitialRings ==
    { [s \in 0 .. QueueSize - 1 |-> pkt] : pkt \in {ZeroPacket, StalePacket} }

Init == InitQueue(InitialRings)

Next ==
    \/ \E p \in Producers : Begin(p, FewDispatches)
    \/ \E p \in Producers : DispatchStep(p)
    \/ DeviceConsume

Spec == Init /\ [][Next]_vars

\* ------------------------------------------------ one producer, one queue
SoloNext ==
    \/ Begin(1, FewDispatches)
    \/ DispatchStep(1)
    \/ DeviceConsume

SpecSolo == Init /\ [][SoloNext]_vars

\* The thread inside dispatch keeps running.
SpecSoloFair == SpecSolo /\ WF_vars(DispatchStep(1))

\* ------------------------------------- one dispatch, every launch geometry
DimsNext ==
    \/ (ndisp = 0 /\ Begin(1, AllDispatches))
    \/ DispatchStep(1)
    \/ DeviceConsume

SpecDims == Init /\ [][DimsNext]_vars

\* ------------------------------- callers of Queue::add_write_index alone
\* The largest write index the queue starts from.
MaxStartIndex == 3

ReserveSizes == { Pow2(k) : k \in 1 .. QueueSizeLog2 + 2 }

CallsMade == Cardinality({ c \in Callers : rsv[c] # -1 })

InitReserve ==
    /\ size \in ReserveSizes
    /\ write_index \in 0 .. MaxStartIndex
    /\ w0 = write_index
    /\ rsv = [c \in Callers |-> -1]
    /\ read_index = 0
    /\ doorbell = 0
    /\ ring = [s \in 0 .. size - 1 |-> ZeroPacket]
    /\ pc = [p \in Producers |-> 0]
    /\ packet_id = [p \in Producers |-> 0]
    /\ disp = [p \in Producers |-> NoDispatch]
    /\ wrote = [p \in Producers |-> << >>]
    /\ ndisp = 0
    /\ IdleApi
    /\ IdleLater

\* One caller's queue.add_write_index(1), fewer than `size` calls in all.
CallAddWriteIndex(c) ==
    /\ rsv[c] = -1
    /\ CallsMade + 1 < size
    /\ rsv' = [rsv EXCEPT ![c] = AddWriteIndexResult(write_index, 1)]
    /\ write_index' = write_index + 1
    /\ UNCHANGED << size, read_index, doorbell, ring, producerVars, w0, apiVars, laterVars >>

ReserveNext == \E c \in Callers : CallAddWriteIndex(c)

SpecReserve == InitReserve /\ [][ReserveNext]_vars

\* ------------------------------------------------ runtime status codes
Statuses ==
    { "SUCCESS", "ERROR", "ERROR_FATAL", "ERROR_OUT_OF_RESOURCES",
      "ERROR_INVALID_REGION", "ERROR_INVALID_AGENT",
      "ERROR_INVALID_ALLOCATION", "ERROR_INVALID_QUEUE_CREATION" }

\* What an info query wrote into its out variable, and the status it returned:
\* on a failure the out variable keeps the value it was initialised with.
QueryOk(v) == [status |-> "SUCCESS", value |-> v]

QueryErr(status, initial) == [status |-> status, value |-> initial]

\* HsaError::from_status: the error kind of a status.
FromStatus(status) ==
    CASE status = "ERROR_FATAL" -> "Fatal"
      [] status = "ERROR_OUT_OF_RESOURCES" -> "OutOfResources"
      [] status = "ERROR_INVALID_REGION" -> "InvalidRegion"
      [] status = "ERROR_INVALID_AGENT" -> "InvalidAgent"
      [] status = "ERROR_INVALID_ALLOCATION" -> "InvalidAllocation"
      [] status = "ERROR_INVALID_QUEUE_CREATION" -> "QueueCreationFailed"
      [] OTHER -> "HsaStatus"

\* ----------------------------------------------------------- Queue::create
\* The largest of the consecutive queue sizes tried.
MaxCreateSize == 9

CreateSizes == (0 .. MaxCreateSize) \cup {16, 100, 1024, 2048}

CreateInputs ==
    [ op : {"Queue::create"},
      size : CreateSizes,
      min_size : {QueryErr("ERROR_INVALID_AGENT", 0), QueryOk(1), QueryOk(4)},
      max_size : {QueryErr("ERROR_INVALID_AGENT", 0), QueryOk(8), QueryOk(1024)},
      status : {"SUCCESS", "ERROR_OUT_OF_RESOURCES", "ERROR_FATAL"},
      queue_ptr_null : BOOLEAN ]

\* Mutant of SizeNotPowerOfTwo: only zero is rejected.
SizeNotPowerOfTwoZeroOnly(sz) == sz = 0

\* size == 0 || (size & (size - 1)) != 0
SizeNotPowerOfTwo(sz) == sz = 0 \/ BitAnd(sz, sz - 1) # 0

\* agent.get_queue_min_size().unwrap_or(1)
MinSizeOrDefault(q) == IF q.status = "SUCCESS" THEN q.value ELSE 1

\* size > agent.get_queue_max_size().unwrap_or(u32::MAX): no u32 exceeds
\* u32::MAX, so a failed query rejects nothing.
ExceedsMaxSize(sz, q) == q.status = "SUCCESS" /\ sz > q.value

\* Mutant of QueueCreateOutcome: no null check after a successful create.
QueueCreateOutcomeNoNullCheck(in) ==
    LET queries == << "QUEUE_MIN_SIZE", "QUEUE_MAX_SIZE" >> IN
    IF SizeNotPowerOfTwo(in.size)
    THEN [result |-> Err("QueueCreationFailed"), calls |-> << >>]
    ELSE IF in.size < MinSizeOrDefault(in.min_size)
    THEN [result |-> Err("QueueCreationFailed"), calls |-> queries]
    ELSE IF ExceedsMaxSize(in.size, in.max_size)
    THEN [result |-> Err("QueueCreationFailed"), calls |-> queries]
    ELSE IF in.status # "SUCCESS"
    THEN [result |-> Err("QueueCreationFailed"),
          calls |-> Append(queries, "hsa_queue_create")]
    ELSE [result |-> Ok, calls |-> Append(queries, "hsa_queue_create")]

\* Queue::create: the result and the runtime calls made, by the arguments and
\* the runtime's answers.
QueueCreateOutcome(in) ==
    LET queries == << "QUEUE_MIN_SIZE", "QUEUE_MAX_SIZE" >> IN
    IF SizeNotPowerOfTwo(in.size)
    THEN [result |-> Err("QueueCreationFailed"), calls |-> << >>]
    ELSE IF in.size < MinSizeOrDefault(in.min_size)
    THEN [result |-> Err("QueueCreationFailed"), calls |-> queries]
    ELSE IF ExceedsMaxSize(in.size, in.max_size)
    THEN [result |-> Err("QueueCreationFailed"), calls |-> queries]
    ELSE IF in.status # "SUCCESS"
    THEN [result |-> Err("QueueCreationFailed"),
          calls |-> Append(queries, "hsa_queue_create")]
    ELSE IF in.queue_ptr_null
    THEN [result |-> Err("QueueCreationFailed"),
          calls |-> Append(queries, "hsa_queue_create")]
    ELSE [result |-> Ok, calls |-> Append(queries, "hsa_queue_create")]

InitApi(inputs) ==
    /\ api_in \in inputs
    /\ api_result = NotCalled
    /\ api_calls = << >>
    /\ size = QueueSize
    /\ write_index = 0
    /\ read_index = 0
    /\ doorbell = 0
    /\ ring = [s \in 0 .. QueueSize - 1 |-> ZeroPacket]
    /\ pc = [p \in Producers |-> 0]
    /\ packet_id = [p \in Producers |-> 0]
    /\ disp = [p \in Producers |-> NoDispatch]
    /\ wrote = [p \in Producers |-> << >>]
    /\ ndisp = 0
    /\ IdleReserve
    /\ IdleLater

\* What hsa_queue_create left in queue_ptr, which starts as null: a failing
\* call writes nothing.
QueuePtr(in) ==
    IF "hsa_queue_create" \in Range(QueueCreateOutcome(in).calls)
       /\ in.status = "SUCCESS" /\ ~in.queue_ptr_null
    THEN 4096 ELSE 0

QueueCreate ==
    /\ api_in.op = "Queue::create"
    /\ api_result = NotCalled
    /\ api_result' = QueueCreateOutcome(api_in).result
    /\ api_calls' = QueueCreateOutcome(api_in).calls
    /\ que_val' = IF QueueCreateOutcome(api_in).result.ok
                  THEN [state |-> "live", ptr |-> QueuePtr(api_in), destroyed |-> << >>]
                  ELSE que_val
    /\ UNCHANGED << api_in, queueVars, producerVars, reserveVars, memVars, signalVars,
                    ctxVars, debugVars, callerVars, exe >>

SpecCreate == InitApi(CreateInputs) /\ [][QueueCreate]_vars

\* ------------------------------------------------- MemoryRegion::allocate
AllocSizes == {0, 1, 1023, 1024, 1025, 2048}

AllocInputs ==
    [ op : {"MemoryRegion::allocate"},
      size : AllocSizes,
      alloc_allowed : { QueryErr("ERROR_INVALID_REGION", FALSE), QueryErr("ERROR_FATAL", FALSE),
                        QueryOk(FALSE), QueryOk(TRUE) },
      max_alloc_size : { QueryErr("ERROR_INVALID_REGION", 0), QueryOk(0), QueryOk(1024) },
      status : {"SUCCESS", "ERROR_OUT_OF_RESOURCES", "ERROR_FATAL"},
      ptr_null : BOOLEAN ]

\* Mutant of SizeExceedsMax: the bound itself is rejected.
SizeExceedsMaxInclusive(sz, max_size) == sz >= max_size

\* size > max_size
SizeExceedsMax(sz, max_size) == sz > max_size

\* MemoryRegion::allocate: the result and the runtime calls made.
AllocateOutcome(in) ==
    IF in.alloc_allowed.status # "SUCCESS"
    THEN [result |-> Err(FromStatus(in.alloc_allowed.status)),
          calls |-> << "RUNTIME_ALLOC_ALLOWED" >>]
    ELSE IF ~in.alloc_allowed.value
    THEN [result |-> Err("MemoryAllocationFailed"),
          calls |-> << "RUNTIME_ALLOC_ALLOWED" >>]
    ELSE IF in.max_alloc_size.status # "SUCCESS"
    THEN [result |-> Err(FromStatus(in.max_alloc_size.status)),
          calls |-> << "RUNTIME_ALLOC_ALLOWED", "ALLOC_MAX_SIZE" >>]
    ELSE IF SizeExceedsMax(in.size, in.max_alloc_size.value)
    THEN [result |-> Err("MemoryAllocationFailed"),
          calls |-> << "RUNTIME_ALLOC_ALLOWED", "ALLOC_MAX_SIZE" >>]
    ELSE IF in.status # "SUCCESS"
    THEN [result |-> Err("MemoryAllocationFailed"),
          calls |-> << "RUNTIME_ALLOC_ALLOWED", "ALLOC_MAX_SIZE", "hsa_memory_allocate" >>]
    ELSE [result |-> Ok,
          calls |-> << "RUNTIME_ALLOC_ALLOWED", "ALLOC_MAX_SIZE", "hsa_memory_allocate" >>]

\* The address hsa_memory_allocate left in ptr.
AllocatedPtr(in) == IF in.ptr_null THEN 0 ELSE 4096

\* Ok(Memory { ptr, size, _phantom })
AllocatedMemory(in) == [ptr |-> AllocatedPtr(in), size |-> in.size]

Allocate ==
    /\ api_in.op = "MemoryRegion::allocate"
    /\ api_result = NotCalled
    /\ api_result' = AllocateOutcome(api_in).result
    /\ api_calls' = AllocateOutcome(api_in).calls
    /\ IF AllocateOutcome(api_in).result.ok
       THEN mem' = AllocatedMemory(api_in) /\ mem_state' = "live"
       ELSE UNCHANGED << mem, mem_state >>
    /\ UNCHANGED << api_in, queueVars, producerVars, reserveVars,
                    mem_op, mem_log, access, signalVars, ctxVars,
                    debugVars, callerVars, ownedVars >>

SpecAlloc == InitApi(AllocInputs) /\ [][Allocate]_vars

\* ------------------------------------------------------------------ Memory
\* Runtime calls one Memory value may make before it is dropped.
MaxMemCalls == 2

AgentHandles == {1, 2}

\* The agents slices passed to allow_access, by handle.
AgentLists ==
    {<< >>} \cup { <<a>> : a \in AgentHandles }
            \cup { <<a, b>> : a \in AgentHandles, b \in AgentHandles }

GrantStatuses == {"SUCCESS", "ERROR_INVALID_AGENT", "ERROR_FATAL"}

FreeStatuses == {"SUCCESS", "ERROR_INVALID_ALLOCATION"}

\* hsa_amd_agents_allow_access(len, handles, null, ptr)
GrantCall(agents, ptr) ==
    [ fn |-> "hsa_amd_agents_allow_access", num_agents |-> Len(agents),
      agents |-> agents, ptr |-> ptr ]

\* hsa_memory_free(ptr)
FreeCall(ptr) == [fn |-> "hsa_memory_free", ptr |-> ptr]

\* Mutant of AllowAccessOutcome: no early return for an empty slice.
AllowAccessNoEmptyCheck(agents, status, ptr) ==
    [ result |-> IF status = "SUCCESS" THEN Ok ELSE Err(FromStatus(status)),
      calls |-> << GrantCall(agents, ptr) >> ]

\* Mutant of AllowAccessOutcome: the status test is inverted.
AllowAccessInverted(agents, status, ptr) ==
    IF agents = << >>
    THEN [result |-> Ok, calls |-> << >>]
    ELSE [ result |-> IF status # "SUCCESS" THEN Ok ELSE Err(FromStatus(status)),
           calls |-> << GrantCall(agents, ptr) >> ]

\* Memory::allow_access: the result and the runtime calls made, by the agents
\* and the status the grant call returns.
AllowAccessOutcome(agents, status, ptr) ==
    IF agents = << >>
    THEN [result |-> Ok, calls |-> << >>]
    ELSE [ result |-> IF status = "SUCCESS" THEN Ok ELSE Err(FromStatus(status)),
           calls |-> << GrantCall(agents, ptr) >> ]

\* The runtime's access set after the calls: a grant that succeeds adds its
\* agents, a failing one changes nothing.
AccessAfter(acc, calls, status) ==
    IF status = "SUCCESS"
    THEN acc \cup UNION { Range(c.agents) : c \in Range(calls) }
    ELSE acc

AllowAccess ==
    /\ mem_state = "live"
    /\ Len(mem_log) < MaxMemCalls
    /\ \E agents \in AgentLists, status \in GrantStatuses :
           LET out == AllowAccessOutcome(agents, status, mem.ptr) IN
           /\ mem_op' = [ op |-> "allow_access", agents |-> agents, status |-> status,
                          result |-> out.result, calls |-> out.calls ]
           /\ mem_log' = mem_log \o out.calls
           /\ access' = AccessAfter(access, out.calls, status)
    /\ UNCHANGED << mem, mem_state, queueVars, producerVars, reserveVars,
                    apiVars, signalVars, ctxVars,
                    debugVars, callerVars, ownedVars >>

\* as_ptr, size, is_null and as_slice: what the accessor returns.
ReadValue(which, m) ==
    CASE which = "as_ptr" -> m.ptr
      [] which = "size" -> m.size
      [] which = "is_null" -> IF m.ptr = 0 THEN 1 ELSE 0
      [] which = "as_slice" -> m.size

MemRead ==
    /\ mem_state = "live"
    /\ \E which \in {"as_ptr", "size", "is_null", "as_slice"} :
           mem_op' = [op |-> which, value |-> ReadValue(which, mem)]
    /\ UNCHANGED << mem, mem_state, mem_log, access, queueVars, producerVars,
                    reserveVars, apiVars, signalVars, ctxVars,
                    debugVars, callerVars, ownedVars >>

\* Mutant of DropCalls: no null check before the free.
DropCallsUnguarded(m) == << FreeCall(m.ptr) >>

\* impl Drop for Memory: hsa_memory_free(self.ptr) unless self.ptr is null.
DropCalls(m) == IF m.ptr # 0 THEN << FreeCall(m.ptr) >> ELSE << >>

\* The owner's Memory value goes out of scope; a failing free is logged.
MemDrop ==
    /\ mem_state = "live"
    /\ mem_state' = "dropped"
    /\ \E status \in FreeStatuses :
           mem_op' = [op |-> "drop", status |-> status, calls |-> DropCalls(mem)]
    /\ mem_log' = mem_log \o DropCalls(mem)
    /\ UNCHANGED << mem, access, queueVars, producerVars, reserveVars,
                    apiVars, signalVars, ctxVars,
                    debugVars, callerVars, ownedVars >>

MemoryNext ==
    \/ Allocate
    \/ AllowAccess
    \/ MemRead
    \/ MemDrop

SpecMemory == InitApi(AllocInputs) /\ [][MemoryNext]_vars

\* ------------------------------------------------------------------ Agent
\* Agents the runtime enumerates.
MaxAgents == 3

DeviceTypes == {"CPU", "GPU", "DSP"}

\* The runtime's answer to the HSA_AGENT_INFO_DEVICE query of one agent; the
\* callback initialises device_type to CPU.
DeviceAnswers ==
    { QueryOk(d) : d \in DeviceTypes } \cup { QueryErr("ERROR_INVALID_AGENT", "CPU") }

\* The agents in the runtime's order; the i-th has the non-zero handle i.
AgentSeqs ==
    UNION { [1 .. n -> DeviceAnswers] : n \in 0 .. MaxAgents }

FindGpuInputs ==
    [ op : {"Agent::find_gpu"},
      agents : AgentSeqs,
      enum_status : {"SUCCESS", "ERROR_OUT_OF_RESOURCES"} ]

OkWith(v) == [ok |-> TRUE, kind |-> "Ok", value |-> v]

\* Mutant of find_gpu_callback: a GPU is written down without stopping.
FindGpuCallbackNoBreak(handle, device, data) ==
    IF device.status # "SUCCESS"
    THEN [status |-> device.status, data |-> data]
    ELSE IF device.value = "GPU"
         THEN [status |-> "SUCCESS", data |-> handle]
         ELSE [status |-> "SUCCESS", data |-> data]

\* find_gpu_callback: the status returned for one agent and the handle then
\* stored behind data.
find_gpu_callback(handle, device, data) ==
    IF device.status # "SUCCESS"
    THEN [status |-> device.status, data |-> data]
    ELSE IF device.value = "GPU"
         THEN [status |-> "INFO_BREAK", data |-> handle]
         ELSE [status |-> "SUCCESS", data |-> data]

RECURSIVE IterateFrom(_, _, _, _)
\* The enumeration from agent i on: the callback runs on each agent in order
\* until it returns a status other than SUCCESS, which ends the enumeration
\* and is its status.
IterateFrom(agents, i, data, queried) ==
    IF i > Len(agents)
    THEN [status |-> "SUCCESS", data |-> data, queried |-> queried]
    ELSE LET r == find_gpu_callback(i, agents[i], data) IN
         IF r.status # "SUCCESS"
         THEN [status |-> r.status, data |-> r.data, queried |-> Append(queried, i)]
         ELSE IterateFrom(agents, i + 1, r.data, Append(queried, i))

\* hsa_iterate_agents(find_gpu_callback, &mut agent_handle), agent_handle 0.
hsa_iterate_agents(in) ==
    IF in.enum_status # "SUCCESS"
    THEN [status |-> in.enum_status, data |-> 0, queried |-> << >>]
    ELSE IterateFrom(in.agents, 1, 0, << >>)

\* Mutant of FindGpuResult: only SUCCESS counts as a completed enumeration.
FindGpuResultBreakIsError(status, handle) ==
    IF status # "SUCCESS"
    THEN Err(FromStatus(status))
    ELSE IF handle = 0 THEN Err("AgentNotFound") ELSE OkWith(handle)

\* Agent::find_gpu after the enumeration returned.
FindGpuResult(status, handle) ==
    IF status # "SUCCESS" /\ status # "INFO_BREAK"
    THEN Err(FromStatus(status))
    ELSE IF handle = 0 THEN Err("AgentNotFound") ELSE OkWith(handle)

FindGpuOutcome(in) ==
    LET it == hsa_iterate_agents(in) IN
    [ result |-> FindGpuResult(it.status, it.data),
      status |-> it.status,
      calls |-> it.queried ]

\* api_calls holds the handles whose device kind was queried, in order.
FindGpu ==
    /\ api_in.op = "Agent::find_gpu"
    /\ api_result = NotCalled
    /\ api_result' = FindGpuOutcome(api_in).result
    /\ api_calls' = FindGpuOutcome(api_in).calls
    /\ UNCHANGED << api_in, queueVars, producerVars, reserveVars, laterVars >>

SpecFindGpu == InitApi(FindGpuInputs) /\ [][FindGpu]_vars

\* ----------------------------------------------------------------- Signal
\* Values a signal takes (hsa_signal_value_t is an i64).
SignalValues == {-1, 0, 1}

CreateStatuses == {"SUCCESS", "ERROR_OUT_OF_RESOURCES"}

\* Signal::create(initial_value) and what hsa_signal_create answers: its
\* status and the handle it leaves in signal, which starts as 0.
SignalInputs ==
    [ op : {"Signal::create"},
      initial_value : SignalValues,
      status : CreateStatuses,
      handle : {0, 7} ]

\* hsa_signal_create(initial_value, 0, null, &mut signal)
SignalCreateCall(initial) == [fn |-> "hsa_signal_create", initial_value |-> initial]

\* hsa_signal_destroy(self.handle)
DestroyCall(h) == [fn |-> "hsa_signal_destroy", handle |-> h]

\* Mutant of SignalCreateOutcome: a success is returned whatever the handle.
SignalCreateNoHandleCheck(in) ==
    [ result |-> IF in.status # "SUCCESS"
                 THEN Err("SignalOperationFailed")
                 ELSE OkWith(in.handle),
      calls |-> << SignalCreateCall(in.initial_value) >> ]

\* Signal::create: the result and the runtime calls made.
SignalCreateOutcome(in) ==
    [ result |-> IF in.status # "SUCCESS"
                 THEN Err("SignalOperationFailed")
                 ELSE IF in.handle = 0
                      THEN Err("SignalOperationFailed")
                      ELSE OkWith(in.handle),
      calls |-> << SignalCreateCall(in.initial_value) >> ]

SignalCreate ==
    /\ api_in.op = "Signal::create"
    /\ api_result = NotCalled
    /\ api_result' = SignalCreateOutcome(api_in).result
    /\ api_calls' = SignalCreateOutcome(api_in).calls
    /\ IF SignalCreateOutcome(api_in).result.ok
       THEN /\ sig' = SignalCreateOutcome(api_in).result.value
            /\ sig_state' = "live"
            /\ sig_value' = api_in.initial_value
       ELSE UNCHANGED << sig, sig_state, sig_value >>
    /\ UNCHANGED << api_in, queueVars, producerVars, reserveVars, memVars, ctxVars, debugVars, callerVars, ownedVars,
                    sig_op, sig_log, wait >>

\* Signal::store(value) by any thread holding the signal, or the device's
\* write of the completion value.
SignalStore ==
    /\ sig_state = "live"
    /\ \E v \in SignalValues : sig_value' = v
    /\ UNCHANGED << sig, sig_state, sig_op, sig_log, wait, queueVars,
                    producerVars, reserveVars, apiVars, memVars, ctxVars,
                    debugVars, callerVars, ownedVars >>

WaitFns == {"wait_eq", "wait_ne", "wait_lt", "wait_gte"}

\* Mutant of ConditionOf: wait_eq waits for inequality.
ConditionOfEqAsNe(fn) ==
    CASE fn = "wait_eq" -> "NE"
      [] fn = "wait_ne" -> "NE"
      [] fn = "wait_lt" -> "LT"
      [] fn = "wait_gte" -> "GTE"

\* Mutant of ConditionOf: wait_lt and wait_gte pass each other's condition.
ConditionOfSwapped(fn) ==
    CASE fn = "wait_eq" -> "EQ"
      [] fn = "wait_ne" -> "NE"
      [] fn = "wait_lt" -> "GTE"
      [] fn = "wait_gte" -> "LT"

\* The HSA_SIGNAL_CONDITION_* each wait method passes to
\* hsa_signal_wait_scacquire.
ConditionOf(fn) ==
    CASE fn = "wait_eq" -> "EQ"
      [] fn = "wait_ne" -> "NE"
      [] fn = "wait_lt" -> "LT"
      [] fn = "wait_gte" -> "GTE"

\* The runtime's reading of a condition: signal value x against compare
\* value v.
Satisfies(cond, x, v) ==
    CASE cond = "EQ" -> x = v
      [] cond = "NE" -> x # v
      [] cond = "LT" -> x < v
      [] cond = "GTE" -> x >= v

\* A thread enters wait_*(value, timeout_ns) with a finite timeout and blocks
\* in hsa_signal_wait_scacquire(handle, condition, value, timeout_ns, BLOCKED).
WaitBegin ==
    /\ sig_state = "live"
    /\ wait.pc # "blocked"
    /\ \E fn \in WaitFns, v \in SignalValues :
           wait' = [ pc |-> "blocked", fn |-> fn, handle |-> sig,
                     condition |-> ConditionOf(fn), value |-> v ]
    /\ UNCHANGED << sig, sig_state, sig_value, sig_op, sig_log, queueVars,
                    producerVars, reserveVars, apiVars, memVars, ctxVars,
                    debugVars, callerVars, ownedVars >>

\* The wait method returns result, the value the runtime call returned.
Returned(w, observed, by) ==
    [ pc |-> "returned", fn |-> w.fn, handle |-> w.handle,
      condition |-> w.condition, value |-> w.value,
      observed |-> observed, ret |-> observed, by |-> by ]

\* The runtime sees the condition satisfied and returns the value it saw.
WaitWake ==
    /\ wait.pc = "blocked"
    /\ Satisfies(wait.condition, sig_value, wait.value)
    /\ wait' = Returned(wait, sig_value, "condition")
    /\ UNCHANGED << sig, sig_state, sig_value, sig_op, sig_log, queueVars,
                    producerVars, reserveVars, apiVars, memVars, ctxVars,
                    debugVars, callerVars, ownedVars >>

\* The timeout elapses with the condition not satisfied; the runtime returns
\* the value it saw.
WaitTimeout ==
    /\ wait.pc = "blocked"
    /\ ~Satisfies(wait.condition, sig_value, wait.value)
    /\ wait' = Returned(wait, sig_value, "timeout")
    /\ UNCHANGED << sig, sig_state, sig_value, sig_op, sig_log, queueVars,
                    producerVars, reserveVars, apiVars, memVars, ctxVars,
                    debugVars, callerVars, ownedVars >>

\* impl Drop for Signal: hsa_signal_destroy(self.handle) unless it is 0.
SignalDropCalls(h) == IF h # 0 THEN << DestroyCall(h) >> ELSE << >>

\* The last owner lets go of the Signal; no wait borrows it. A failing
\* destroy is logged.
SignalDrop ==
    /\ sig_state = "live"
    /\ wait.pc # "blocked"
    /\ sig_state' = "dropped"
    /\ \E status \in {"SUCCESS", "ERROR_INVALID_ARGUMENT"} :
           sig_op' = [op |-> "drop", status |-> status, calls |-> SignalDropCalls(sig)]
    /\ sig_log' = sig_log \o SignalDropCalls(sig)
    /\ UNCHANGED << sig, sig_value, wait, queueVars, producerVars, reserveVars,
                    apiVars, memVars, ctxVars,
                    debugVars, callerVars, ownedVars >>

SignalNext ==
    \/ SignalCreate
    \/ SignalStore
    \/ WaitBegin
    \/ WaitWake
    \/ WaitTimeout
    \/ SignalDrop

SpecSignal == InitApi(SignalInputs) /\ [][SignalNext]_vars

\* A blocked wait is resumed: when the condition holds the runtime wakes the
\* waiter, and a finite timeout elapses.
SpecSignalFair ==
    /\ SpecSignal
    /\ WF_vars(WaitWake)
    /\ WF_vars(WaitWake \/ WaitTimeout)

\* ------------------------------------------------------------- HsaContext
\* Memory regions the runtime reports for the agent.
MaxRegions == 3

HSA_REGION_GLOBAL_FLAG_FINE_GRAINED == 2

\* One region: what its HSA_REGION_INFO_SEGMENT and
\* HSA_REGION_INFO_GLOBAL_FLAGS queries answer (flags: 1 KERNARG, 2
\* FINE_GRAINED, 4 COARSE_GRAINED); both out variables start as 0, which as
\* a segment is GLOBAL.
RegionAnswers ==
    { [segment |-> QueryOk("KERNARG"), flags |-> QueryOk(0)],
      [segment |-> QueryOk("GROUP"), flags |-> QueryOk(0)],
      [segment |-> QueryOk("GLOBAL"), flags |-> QueryOk(2)],
      [segment |-> QueryOk("GLOBAL"), flags |-> QueryOk(4)],
      [segment |-> QueryOk("GLOBAL"), flags |-> QueryOk(1)],
      [segment |-> QueryOk("GLOBAL"), flags |-> QueryOk(6)],
      [segment |-> QueryOk("GLOBAL"), flags |-> QueryErr("ERROR_INVALID_REGION", 0)],
      [segment |-> QueryErr("ERROR_INVALID_REGION", "GLOBAL"), flags |-> QueryOk(0)] }

RegionSeqs == UNION { [1 .. n -> RegionAnswers] : n \in 0 .. MaxRegions }

\* What the runtime answers to Queue::create(&agent, 1024).
ContextQueueAnswers ==
    { [ op |-> "Queue::create", size |-> 1024, min_size |-> QueryOk(1),
        max_size |-> mx, status |-> st, queue_ptr_null |-> nl ] :
      mx \in {QueryOk(8), QueryOk(1024)},
      st \in {"SUCCESS", "ERROR_OUT_OF_RESOURCES"},
      nl \in BOOLEAN }

ContextInputs ==
    [ op : {"HsaContext::new"},
      init_status : {"SUCCESS", "ERROR_OUT_OF_RESOURCES"},
      agents : { <<QueryOk("GPU")>>, <<QueryOk("CPU")>>,
                 <<QueryErr("ERROR_INVALID_AGENT", "CPU")>> },
      enum_status : {"SUCCESS"},
      regions_status : {"SUCCESS", "ERROR_INVALID_AGENT"},
      regions : RegionSeqs,
      queue : ContextQueueAnswers ]

\* crate::init / crate::shutdown: Err(from_status) unless the status is
\* SUCCESS.
StatusResult(status) == IF status = "SUCCESS" THEN Ok ELSE Err(FromStatus(status))

\* Agent::find_gpu within new: its runtime calls by name.
FindGpuCalls(in) ==
    << "hsa_iterate_agents" >> \o
        [k \in 1 .. Len(FindGpuOutcome(in).calls) |-> "hsa_agent_get_info"]

RECURSIVE RegionLogCalls(_, _)
\* The loop of iterate_memory_regions that describes each region: segment(),
\* and global_flags() for a GLOBAL one, failures ignored.
RegionLogCalls(regions, i) ==
    IF i > Len(regions) THEN << >>
    ELSE LET r == regions[i] IN
         (IF r.segment.status = "SUCCESS" /\ r.segment.value = "GLOBAL"
          THEN << "SEGMENT", "GLOBAL_FLAGS" >>
          ELSE << "SEGMENT" >>) \o RegionLogCalls(regions, i + 1)

\* Agent::iterate_memory_regions
IterateRegionsOutcome(in) ==
    IF in.regions_status # "SUCCESS"
    THEN [ result |-> Err(FromStatus(in.regions_status)),
           calls |-> << "hsa_agent_iterate_regions" >> ]
    ELSE [ result |-> Ok,
           calls |-> << "hsa_agent_iterate_regions" >> \o RegionLogCalls(in.regions, 1) ]

\* Mutant of IsFineGrained: a region is fine-grained unless flagged coarse.
IsFineGrainedUnlessCoarse(flags) == BitAnd(flags, 4) = 0

\* flags & HSA_REGION_GLOBAL_FLAG_FINE_GRAINED != 0
IsFineGrained(flags) == BitAnd(flags, HSA_REGION_GLOBAL_FLAG_FINE_GRAINED) # 0

RECURSIVE ClassifyFrom(_, _, _)
\* for region in regions { match region.segment()? { ... } }: acc holds the
\* regions chosen so far (0: None) and the queries made.
ClassifyFrom(regions, i, acc) ==
    IF i > Len(regions) THEN acc
    ELSE LET r == regions[i]
             seg == [acc EXCEPT !.calls = Append(@, "SEGMENT")]
             flg == [seg EXCEPT !.calls = Append(@, "GLOBAL_FLAGS")]
         IN
         IF r.segment.status # "SUCCESS"
         THEN [seg EXCEPT !.result = Err(FromStatus(r.segment.status))]
         ELSE IF r.segment.value = "KERNARG"
         THEN ClassifyFrom(regions, i + 1, [seg EXCEPT !.kernarg = i])
         ELSE IF r.segment.value = "GLOBAL"
         THEN IF r.flags.status # "SUCCESS"
              THEN [flg EXCEPT !.result = Err(FromStatus(r.flags.status))]
              ELSE IF IsFineGrained(r.flags.value)
              THEN ClassifyFrom(regions, i + 1, [flg EXCEPT !.fine = i])
              ELSE ClassifyFrom(regions, i + 1, [flg EXCEPT !.coarse = i])
         ELSE ClassifyFrom(regions, i + 1, seg)

Classify(regions) ==
    ClassifyFrom(regions, 1,
        [result |-> Ok, kernarg |-> 0, fine |-> 0, coarse |-> 0, calls |-> << >>])

\* Mutant of RegionMissing: a context without a kernarg region is refused.
RegionMissingOfThree(cls) == cls.coarse = 0 \/ cls.fine = 0 \/ cls.kernarg = 0

\* coarse_grained_region.ok_or(MemoryRegionNotFound)?, then the same for
\* fine_grained_region; kernarg_region stays an Option.
RegionMissing(cls) == cls.coarse = 0 \/ cls.fine = 0

\* The region fields of the HsaContext new returns.
HsaContextFields(in) ==
    [ kernarg |-> Classify(in.regions).kernarg,
      fine |-> Classify(in.regions).fine,
      coarse |-> Classify(in.regions).coarse ]

\* HsaContext::new: the result and the runtime calls made, in order.
HsaContextNewOutcome(in) ==
    LET init == << "hsa_init" >>
        gpu == init \o FindGpuCalls(in)
        regs == gpu \o IterateRegionsOutcome(in).calls
        cls == regs \o Classify(in.regions).calls
        que == cls \o QueueCreateOutcome(in.queue).calls
    IN
    IF ~StatusResult(in.init_status).ok
    THEN [result |-> StatusResult(in.init_status), calls |-> init]
    ELSE IF ~FindGpuOutcome(in).result.ok
    THEN [result |-> FindGpuOutcome(in).result, calls |-> gpu]
    ELSE IF ~IterateRegionsOutcome(in).result.ok
    THEN [result |-> IterateRegionsOutcome(in).result, calls |-> regs]
    ELSE IF ~Classify(in.regions).result.ok
    THEN [result |-> Classify(in.regions).result, calls |-> cls]
    ELSE IF RegionMissing(Classify(in.regions))
    THEN [result |-> Err("MemoryRegionNotFound"), calls |-> cls]
    ELSE IF ~QueueCreateOutcome(in.queue).result.ok
    THEN [result |-> QueueCreateOutcome(in.queue).result, calls |-> que]
    ELSE [result |-> Ok, calls |-> que]

HsaContextNew ==
    /\ api_in.op = "HsaContext::new"
    /\ api_result = NotCalled
    /\ api_result' = HsaContextNewOutcome(api_in).result
    /\ api_calls' = HsaContextNewOutcome(api_in).calls
    /\ ctx' = IF HsaContextNewOutcome(api_in).result.ok THEN "live" ELSE ctx
    /\ ctx_regions' = IF HsaContextNewOutcome(api_in).result.ok
                      THEN HsaContextFields(api_in) ELSE ctx_regions
    /\ UNCHANGED << api_in, ctx_log, queueVars, producerVars, reserveVars,
                    memVars, signalVars, debugVars, callerVars, ownedVars >>

\* impl Drop for Queue: hsa_queue_destroy(self.ptr) unless self.ptr is null.
QueueDropCalls(ptr) == IF ptr # 0 THEN << "hsa_queue_destroy" >> ELSE << >>

\* Mutant of HsaContextDropCalls: the runtime is shut down before the queue
\* is let go.
HsaContextDropShutdownFirst(queue) ==
    << "hsa_shut_down" >> \o
        (IF queue.some THEN QueueDropCalls(queue.ptr) ELSE << >>)

\* impl Drop for HsaContext: self.queue.take() drops the queue if there is
\* one, then let _ = crate::shutdown().
HsaContextDropCalls(queue) ==
    (IF queue.some THEN QueueDropCalls(queue.ptr) ELSE << >>)
        \o << "hsa_shut_down" >>

\* The queue field new builds: Some(queue), the pointer non-null.
ContextQueue == [some |-> TRUE, ptr |-> 4096]

\* The owner lets go of the HsaContext; the statuses of the destroy and of
\* the shutdown do not matter to what is called.
HsaContextDrop ==
    /\ ctx = "live"
    /\ ctx' = "dropped"
    /\ ctx_log' = HsaContextDropCalls(ContextQueue)
    /\ UNCHANGED << ctx_regions, apiVars, queueVars, producerVars, reserveVars, memVars,
                    signalVars, debugVars, callerVars, ownedVars >>

ContextNext ==
    \/ HsaContextNew
    \/ HsaContextDrop

SpecContext == InitApi(ContextInputs) /\ [][ContextNext]_vars

\* --------------------------------------------------------------- teardown
\* Mutant of ExecutableDropCalls: a failing reader destroy ends the drop.
ExecutableDropStopsOnFailure(reader_some, reader_status) ==
    IF reader_some
    THEN IF reader_status # "SUCCESS"
         THEN << "hsa_code_object_reader_destroy" >>
         ELSE << "hsa_code_object_reader_destroy", "hsa_executable_destroy" >>
    ELSE << "hsa_executable_destroy" >>

\* impl Drop for Executable: the reader, if one was kept, is destroyed and
\* the status of that is dropped; then the executable is destroyed.
ExecutableDropCalls(reader_some, reader_status) ==
    (IF reader_some THEN << "hsa_code_object_reader_destroy" >> ELSE << >>)
        \o << "hsa_executable_destroy" >>

TeardownKinds == {"HsaContext", "Executable", "Queue", "Signal", "Memory"}

\* The value being dropped and the statuses the runtime returns to the
\* first and the second release call. present: the Option held (the queue of
\* a context, the reader of an executable); handle: the pointer or handle
\* owned, which only a Memory can hold as null.
TeardownInputs ==
    { in \in [ op : {"drop"},
               kind : TeardownKinds,
               present : BOOLEAN,
               handle : {0, 4096},
               first_status : {"SUCCESS", "ERROR", "ERROR_FATAL", "ERROR_INVALID_ARGUMENT"},
               second_status : {"SUCCESS", "ERROR", "ERROR_FATAL"} ] :
        /\ in.kind \in {"Queue", "Signal", "Memory"} => in.present
        /\ in.kind # "Memory" => in.handle # 0 }

Dropped == [ok |-> TRUE, kind |-> "dropped"]

\* The drop of one value: it returns, having made these release calls.
TeardownOutcome(in) ==
    [ result |-> Dropped,
      calls |->
        CASE in.kind = "HsaContext" ->
                 HsaContextDropCalls([some |-> in.present, ptr |-> in.handle])
          [] in.kind = "Executable" ->
                 ExecutableDropCalls(in.present, in.first_status)
          [] in.kind = "Queue" -> QueueDropCalls(in.handle)
          [] in.kind = "Signal" ->
                 [k \in 1 .. Len(SignalDropCalls(in.handle)) |-> "hsa_signal_destroy"]
          [] in.kind = "Memory" ->
                 [k \in 1 .. Len(DropCalls([ptr |-> in.handle, size |-> 0])) |-> "hsa_memory_free"] ]

Teardown ==
    /\ api_in.op = "drop"
    /\ api_result = NotCalled
    /\ api_result' = TeardownOutcome(api_in).result
    /\ api_calls' = TeardownOutcome(api_in).calls
    /\ UNCHANGED << api_in, queueVars, producerVars, reserveVars, laterVars >>

SpecTeardown == InitApi(TeardownInputs) /\ [][Teardown]_vars

\* ------------------------------------------------------- the debug toggle
\* Queue calls made in each of the two runs.
MaxDebugCalls == 3

\* The Queue methods called, with their argument.
QueueOps ==
    { [fn |-> "add_write_index", value |-> 1], [fn |-> "load_write_index", value |-> 0] }
        \cup { [fn |-> "store_write_index", value |-> v] : v \in 0 .. 2 }

\* log_debug(message): the message goes to stderr when HSA_DEBUG is set.
LogDebug(stderr, message, debug) ==
    IF debug THEN Append(stderr, message) ELSE stderr

RuntimeCall(fn, arg) == [fn |-> fn, arg |-> arg]

\* Mutant of QueueCall: add_write_index reads the new index back for its
\* message, and only when the message is wanted.
QueueCallDebugLoads(run, op, debug) ==
    IF op.fn = "add_write_index" /\ debug
    THEN [ write_index |-> run.write_index + op.value,
           calls |-> run.calls \o
               << RuntimeCall("hsa_queue_add_write_index_relaxed", op.value),
                  RuntimeCall("hsa_queue_load_write_index_scacquire", 0) >>,
           results |-> Append(run.results, AddWriteIndexResult(run.write_index, op.value)),
           stderr |-> LogDebug(run.stderr,
                               << "Added", op.value, run.write_index,
                                  run.write_index + op.value >>, debug) ]
    ELSE [ write_index |-> run.write_index + (IF op.fn = "add_write_index" THEN op.value ELSE 0),
           calls |-> Append(run.calls, RuntimeCall(op.fn, op.value)),
           results |-> Append(run.results, run.write_index),
           stderr |-> run.stderr ]

\* One Queue method in one run: the runtime call it makes, what it returns
\* (0 for the unit of store_write_index) and what it logs.
QueueCall(run, op, debug) ==
    CASE op.fn = "add_write_index" ->
             [ write_index |-> run.write_index + op.value,
               calls |-> Append(run.calls,
                                RuntimeCall("hsa_queue_add_write_index_relaxed", op.value)),
               results |-> Append(run.results, AddWriteIndexResult(run.write_index, op.value)),
               stderr |-> LogDebug(run.stderr,
                                   << "Added", op.value, run.write_index,
                                      run.write_index + op.value >>, debug) ]
      [] op.fn = "store_write_index" ->
             [ write_index |-> StoreWriteIndexValue(run.write_index, op.value),
               calls |-> Append(run.calls,
                                RuntimeCall("hsa_queue_store_write_index_relaxed", op.value)),
               results |-> Append(run.results, 0),
               stderr |-> LogDebug(run.stderr, << "Storing write index", op.value >>, debug) ]
      [] op.fn = "load_write_index" ->
             [ write_index |-> run.write_index,
               calls |-> Append(run.calls,
                                RuntimeCall("hsa_queue_load_write_index_scacquire", 0)),
               results |-> Append(run.results, run.write_index),
               stderr |-> LogDebug(run.stderr, << "Write index", run.write_index >>, debug) ]

\* The same call is made in the run with HSA_DEBUG set and in the run
\* without it.
QueueCallBoth ==
    /\ Len(runs[TRUE].results) < MaxDebugCalls
    /\ \E op \in QueueOps :
           runs' = [debug \in BOOLEAN |-> QueueCall(runs[debug], op, debug)]
    /\ UNCHANGED << queueVars, producerVars, reserveVars, apiVars, memVars,
                    signalVars, ctxVars, callerVars, ownedVars >>

SpecDebug == Init /\ [][QueueCallBoth]_vars

\* ------------------------------------ producers that check before dispatch
\* The caller's backpressure check of the specification (4.3):
\* queue.load_write_index() - queue.load_read_index() < C, in u64. A
\* difference below zero wraps far above C (or panics): no room either way.
HasRoom(w, r) == w >= r /\ w - r < size

\* queue.load_write_index()
CheckLoadWrite(p) ==
    /\ pc[p] = 0
    /\ chk[p].pc = "idle"
    /\ ndisp < MaxDispatches
    /\ chk' = [chk EXCEPT ![p] = [pc |-> "w", w |-> write_index, r |-> 0]]
    /\ UNCHANGED << queueVars, producerVars, reserveVars, apiVars, memVars, signalVars,
                    ctxVars, debugVars, ex, ownedVars >>

\* queue.load_read_index()
CheckLoadRead(p) ==
    /\ chk[p].pc = "w"
    /\ chk' = [chk EXCEPT ![p] = [pc |-> "r", w |-> @.w, r |-> read_index]]
    /\ UNCHANGED << queueVars, producerVars, reserveVars, apiVars, memVars, signalVars,
                    ctxVars, debugVars, ex, ownedVars >>

\* The check passed: the caller enters dispatch.
CheckPass(p, choices) ==
    /\ chk[p].pc = "r"
    /\ HasRoom(chk[p].w, chk[p].r)
    /\ ndisp < MaxDispatches
    /\ \E d \in choices : disp' = [disp EXCEPT ![p] = d]
    /\ pc' = [pc EXCEPT ![p] = 1]
    /\ wrote' = [wrote EXCEPT ![p] = << >>]
    /\ ndisp' = ndisp + 1
    /\ chk' = [chk EXCEPT ![p] = NoCheck]
    /\ UNCHANGED << queueVars, packet_id, reserveVars, apiVars, memVars, signalVars,
                    ctxVars, debugVars, ex, ownedVars >>

\* The check failed: the caller does not dispatch now.
CheckFail(p) ==
    /\ chk[p].pc = "r"
    /\ ~HasRoom(chk[p].w, chk[p].r)
    /\ chk' = [chk EXCEPT ![p] = NoCheck]
    /\ UNCHANGED << queueVars, producerVars, reserveVars, apiVars, memVars, signalVars,
                    ctxVars, debugVars, ex, ownedVars >>

Check(p, choices) ==
    \/ CheckLoadWrite(p)
    \/ CheckLoadRead(p)
    \/ CheckPass(p, choices)
    \/ CheckFail(p)

OneDispatch == { KernelDispatchOf(<<64, 1, 1>>, <<64, 1, 1>>) }

CleanRing == { [s \in 0 .. QueueSize - 1 |-> ZeroPacket] }

\* Two producer threads share the queue; any further producer stays idle.
Checkers == { p \in Producers : p <= 2 }

CheckedNext ==
    \/ \E p \in Checkers : Check(p, OneDispatch)
    \/ \E p \in Checkers : DispatchStep(p)
    \/ DeviceConsume

SpecChecked == InitQueue(CleanRing) /\ [][CheckedNext]_vars









\* ---------------------------------------- the example program's main flow
\* Mutant of ExampleLocals: the context is the last local declared.
ExampleLocalsContextLast ==
    << "executable", "output_buffer", "camera_buffer", "disk_buffer",
       "kernargs_buffer", "completion_signal", "ctx" >>

\* The locals of main that own a runtime resource, in declaration order.
ExampleLocals ==
    << "ctx", "executable", "output_buffer", "camera_buffer", "disk_buffer",
       "kernargs_buffer", "completion_signal" >>

Stmt(call, of, fails, creates) ==
    [call |-> call, of |-> of, fails |-> fails, creates |-> creates]

\* The statements of main that call the library or can return, in source
\* order: the call, the value it is made on, whether main can return early
\* there, and the local the statement declares ("none": no owning local).
\* The region and queue fields of a context new returned are Some and
\* dispatch returns Ok(()), so main does not return from those statements.
ExampleStmts ==
    << Stmt("HsaContext::new", "ctx", TRUE, "ctx"),
       Stmt("device_type", "ctx", TRUE, "none"),
       Stmt("iterate_memory_regions", "ctx", TRUE, "none"),
       Stmt("segment", "ctx", TRUE, "none"),
       Stmt("fs::read", "kernel_path", TRUE, "none"),
       Stmt("Executable::create", "executable", TRUE, "executable"),
       Stmt("load_code_object", "executable", TRUE, "none"),
       Stmt("freeze", "executable", TRUE, "none"),
       Stmt("list_symbols", "executable", TRUE, "none"),
       Stmt("get_kernel_symbol", "executable", TRUE, "none"),
       Stmt("kernel_object", "kernel_symbol", TRUE, "none"),
       Stmt("get_segment_sizes", "kernel_symbol", TRUE, "none"),
       Stmt("coarse_grained_region", "ctx", FALSE, "none"),
       Stmt("allocate", "output_buffer", TRUE, "output_buffer"),
       Stmt("allow_access", "output_buffer", TRUE, "none"),
       Stmt("allocate", "camera_buffer", TRUE, "camera_buffer"),
       Stmt("allow_access", "camera_buffer", TRUE, "none"),
       Stmt("allocate", "disk_buffer", TRUE, "disk_buffer"),
       Stmt("allow_access", "disk_buffer", TRUE, "none"),
       Stmt("write", "camera_buffer", FALSE, "none"),
       Stmt("write", "disk_buffer", FALSE, "none"),
       Stmt("kernarg_region", "ctx", FALSE, "none"),
       Stmt("allocate", "kernargs_buffer", TRUE, "kernargs_buffer"),
       Stmt("write", "kernargs_buffer", FALSE, "none"),
       Stmt("Signal::create", "completion_signal", TRUE, "completion_signal"),
       Stmt("queue", "ctx", FALSE, "none"),
       Stmt("dispatch", "queue", FALSE, "none"),
       Stmt("wait_eq", "completion_signal", TRUE, "none"),
       Stmt("as_slice", "output_buffer", FALSE, "none") >>

NumStmts == Len(ExampleStmts)

\* ex.pc beyond the statements: main is returning, main has exited.
Unwinding == NumStmts + 1

Exited == NumStmts + 2

Event(call, of, ok) == [call |-> call, of |-> of, ok |-> ok]

\* main runs its next statement: it succeeds, or main returns early from it.
\* A statement that fails declares nothing.
ExampleStep ==
    /\ ex.pc \in 1 .. NumStmts
    /\ LET st == ExampleStmts[ex.pc] IN
       \E ok \in IF st.fails THEN BOOLEAN ELSE {TRUE} :
           ex' = [ pc |-> IF ok THEN ex.pc + 1 ELSE Unwinding,
                   live |-> IF ok /\ st.creates # "none"
                            THEN ex.live \cup {st.creates} ELSE ex.live,
                   log |-> Append(ex.log, Event(st.call, st.of, ok)),
                   result |-> IF ~ok THEN "Err"
                              ELSE IF ex.pc = NumStmts THEN "Ok" ELSE "none" ]
    /\ UNCHANGED << queueVars, producerVars, reserveVars, apiVars, memVars, signalVars,
                    ctxVars, debugVars, chk, ownedVars >>

\* The local that goes out of scope next: the live one declared last.
NextDropped(live) ==
    ExampleLocals[CHOOSE i \in 1 .. Len(ExampleLocals) :
        /\ ExampleLocals[i] \in live
        /\ \A j \in i + 1 .. Len(ExampleLocals) : ExampleLocals[j] \notin live]

\* main returns: its live locals are dropped, the last declared first.
ExampleUnwind ==
    /\ ex.pc = Unwinding
    /\ ex' = IF ex.live = {}
             THEN [ex EXCEPT !.pc = Exited]
             ELSE [ex EXCEPT !.live = @ \ {NextDropped(ex.live)},
                             !.log = Append(@, Event("drop", NextDropped(ex.live), TRUE))]
    /\ UNCHANGED << queueVars, producerVars, reserveVars, apiVars, memVars, signalVars,
                    ctxVars, debugVars, chk, ownedVars >>

ExampleNext ==
    \/ ExampleStep
    \/ ExampleUnwind

InitExample ==
    /\ size = QueueSize
    /\ write_index = 0
    /\ read_index = 0
    /\ doorbell = 0
    /\ ring \in CleanRing
    /\ pc = [p \in Producers |-> 0]
    /\ packet_id = [p \in Producers |-> 0]
    /\ disp = [p \in Producers |-> NoDispatch]
    /\ wrote = [p \in Producers |-> << >>]
    /\ ndisp = 0
    /\ IdleReserve
    /\ IdleApi
    /\ IdleMem /\ IdleSignal /\ IdleCtx /\ IdleDebug
    /\ chk = [p \in Producers |-> NoCheck]
    /\ ex = [NoExample EXCEPT !.pc = 1]
    /\ IdleOwned

SpecExample == InitExample /\ [][ExampleNext]_vars



\* ------------------------------------------------- the life of a Queue
\* The owner lets go of the Queue create returned: impl Drop for Queue.
QueueDrop ==
    /\ que_val.state = "live"
    /\ que_val' = [ que_val EXCEPT
                      !.state = "dropped",
                      !.destroyed = @ \o [k \in 1 .. Len(QueueDropCalls(que_val.ptr)) |-> que_val.ptr] ]
    /\ UNCHANGED << apiVars, queueVars, producerVars, reserveVars, memVars, signalVars,
                    ctxVars, debugVars, callerVars, exe >>

QueueLifeNext ==
    \/ QueueCreate
    \/ QueueDrop

SpecQueueLife == InitApi(CreateInputs) /\ [][QueueLifeNext]_vars

\* ------------------------------------------- the readers of an Executable
\* Calls of load_code_object made on one Executable.
MaxLoads == 4

\* One call of load_code_object: whether the code object is empty, and the
\* statuses of the reader creation and of the load.
LoadInputs ==
    [ empty : BOOLEAN,
      create_status : {"SUCCESS", "ERROR_OUT_OF_RESOURCES"},
      load_status : {"SUCCESS", "ERROR_INVALID_CODE_OBJECT"} ]

\* self.code_object_reader = Some(reader): the field after a successful load.
ReaderAfterLoad(old, reader) == reader

\* Executable::load_code_object: the result, the readers made so far, the
\* reader field (0: None) and the readers destroyed.
LoadCodeObjectOutcome(e, in) ==
    IF in.empty
    THEN [result |-> Err("InvalidArgument"), made |-> e.made, reader |-> e.reader,
          destroyed |-> e.destroyed]
    ELSE IF in.create_status # "SUCCESS"
    THEN [result |-> Err("CodeObjectReaderFailed"), made |-> e.made, reader |-> e.reader,
          destroyed |-> e.destroyed]
    ELSE IF in.load_status # "SUCCESS"
    THEN [result |-> Err("CodeObjectLoadFailed"), made |-> e.made + 1, reader |-> e.reader,
          destroyed |-> Append(e.destroyed, e.made + 1)]
    ELSE [result |-> Ok, made |-> e.made + 1,
          reader |-> ReaderAfterLoad(e.reader, e.made + 1),
          destroyed |-> e.destroyed]

LoadCodeObject ==
    /\ exe.state = "live"
    /\ exe.loads < MaxLoads
    /\ \E in \in LoadInputs :
           /\ exe' = [ exe EXCEPT
                         !.loads = @ + 1,
                         !.made = LoadCodeObjectOutcome(exe, in).made,
                         !.reader = LoadCodeObjectOutcome(exe, in).reader,
                         !.destroyed = LoadCodeObjectOutcome(exe, in).destroyed ]
           /\ api_result' = LoadCodeObjectOutcome(exe, in).result
    /\ UNCHANGED << api_in, api_calls, queueVars, producerVars, reserveVars, memVars,
                    signalVars, ctxVars, debugVars, callerVars, que_val >>

\* impl Drop for Executable: the reader in the field, if any, is destroyed.
ExecutableDrop ==
    /\ exe.state = "live"
    /\ exe' = [ exe EXCEPT
                  !.state = "dropped",
                  !.destroyed =
                      @ \o [k \in 1 .. Len(ExecutableDropCalls(exe.reader # 0, "SUCCESS")) - 1
                              |-> exe.reader] ]
    /\ UNCHANGED << apiVars, queueVars, producerVars, reserveVars, memVars, signalVars,
                    ctxVars, debugVars, callerVars, que_val >>

ExecutableNext ==
    \/ LoadCodeObject
    \/ ExecutableDrop

\* Executable::create has returned an Executable whose reader is None.
InitExecutable ==
    /\ size = QueueSize
    /\ write_index = 0
    /\ read_index = 0
    /\ doorbell = 0
    /\ ring \in CleanRing
    /\ pc = [p \in Producers |-> 0]
    /\ packet_id = [p \in Producers |-> 0]
    /\ disp = [p \in Producers |-> NoDispatch]
    /\ wrote = [p \in Producers |-> << >>]
    /\ ndisp = 0
    /\ IdleReserve
    /\ IdleApi
    /\ IdleMem /\ IdleSignal /\ IdleCtx /\ IdleDebug /\ IdleCaller
    /\ exe = [NoExecutable EXCEPT !.state = "live"]
    /\ que_val = NoQueue

SpecExecutable == InitExecutable /\ [][ExecutableNext]_vars

\* ------------------------------------------- two producers, one dispatch
\* Two producer threads dispatch the same KernelDispatch on a zeroed ring.
PairNext ==
    \/ \E p \in Checkers : Begin(p, OneDispatch)
    \/ \E p \in Checkers : DispatchStep(p)
    \/ DeviceConsume

SpecPair == InitQueue(CleanRing) /\ [][PairNext]_vars

\* ================================================================ claims
\* The position of x in seq, 0 when absent.
IndexOf(seq, x) ==
    IF x \in Range(seq) THEN CHOOSE i \in 1 .. Len(seq) : seq[i] = x ELSE 0

Before(seq, x, y) == IndexOf(seq, x) > 0 /\ IndexOf(seq, x) < IndexOf(seq, y)

Reserved(p) == "add_write_index" \in Range(wrote[p])

\* The producer is inside dispatch, past the reservation.
Running(p) == pc[p] > 1 /\ Reserved(p)

\* C1: no two dispatches running concurrently on the queue hold the same
\* packet index (so no two of them write the same ring slot).
C1_DistinctPacketIds ==
    \A p, q \in Producers :
        (p # q /\ Running(p) /\ Running(q)) => packet_id[p] # packet_id[q]

\* C3: the write index never decreases from one state to the next.
C3_WriteIndexMonotonic == [][write_index' >= write_index]_vars

\* C4: the header is the last packet field a dispatch writes: once it has
\* written the header it has written every other field.
C4_HeaderLast ==
    \A p \in Producers :
        "header" \in Range(wrote[p]) => PacketFields \subseteq Range(wrote[p])

\* C5: every packet the write index covers and the device has not consumed
\* has been fully written by the dispatch that reserved it.
C5_VisibleImpliesWritten ==
    \A p \in Producers :
        (Running(p) /\ read_index <= packet_id[p] /\ packet_id[p] < write_index)
            => PacketFields \subseteq Range(wrote[p])

\* C6: every dispatch reserves first, stores the write index after every
\* packet field write and before the doorbell store, and skips no step.
C6_PublishOrder ==
    \A p \in Producers :
        LET w == wrote[p] IN
        /\ Len(w) > 0 => w[1] = "add_write_index"
        /\ \A i, j \in 1 .. Len(w) : i # j => w[i] # w[j]
        /\ "store_write_index" \in Range(w) =>
               \A f \in PacketFields : Before(w, f, "store_write_index")
        /\ "doorbell" \in Range(w) => Before(w, "store_write_index", "doorbell")
        /\ (pc[p] \in {0, NumSteps + 1} /\ Len(w) > 0) =>
               Range(w) = PacketFields \cup
                   {"add_write_index", "clear", "store_write_index", "doorbell"}

C6_Witness ==
    /\ pc[1] = NumSteps + 1
    /\ "doorbell" \in Range(wrote[1])
    /\ write_index = packet_id[1] + 1

\* C7: the slot is zeroed before any packet field is written, and its header
\* reads 0 from the clear until the header write.
C7_ZeroThenPopulate ==
    \A p \in Producers :
        LET w == wrote[p] IN
        /\ \A f \in PacketFields : f \in Range(w) => Before(w, "clear", f)
        /\ (Len(w) > 0 /\ w[Len(w)] = "clear") => ring[Slot(packet_id[p])] = ZeroPacket
        /\ ("clear" \in Range(w) /\ "header" \notin Range(w)) =>
               ring[Slot(packet_id[p])]["header"] = 0

\* The slot is reused: its previous occupant was a complete packet.
C7_Witness ==
    /\ packet_id[1] >= size
    /\ wrote[1] = << "add_write_index", "clear", "setup" >>
    /\ ring[Slot(packet_id[1])]["header"] = 0

\* The dimension count held by a setup field (its two low bits above the offset).
DecodedDimensions(setup) ==
    (setup \div Pow2(HSA_KERNEL_DISPATCH_PACKET_SETUP_DIMENSIONS)) % 4

\* C8: the dimension count encoded in setup is 3 if z > 1, else 2 if y > 1,
\* else 1, whatever x and the workgroup size are.
C8_DimensionCount ==
    \A p \in Producers :
        ("setup" \in Range(wrote[p])) =>
            LET g == disp[p].grid_size
                n == DecodedDimensions(ring[Slot(packet_id[p])]["setup"])
            IN  /\ g[3] > 1 => n = 3
                /\ (g[3] <= 1 /\ g[2] > 1) => n = 2
                /\ (g[3] <= 1 /\ g[2] <= 1) => n = 1
                /\ g = <<1, 1, 1>> => n = 1
                /\ g = <<64, 1, 1>> => n = 1
                /\ g = <<64, 64, 1>> => n = 2
                /\ g = <<64, 64, 64>> => n = 3

C8_Witness ==
    /\ "setup" \in Range(wrote[1])
    /\ disp[1].grid_size = <<64, 64, 1>>
    /\ disp[1].workgroup_size = <<64, 2, 1>>
    /\ ring[Slot(packet_id[1])]["setup"] = 2

\* C2: the values returned by N < size calls of add_write_index(1) are
\* pairwise distinct and are exactly w0 .. w0+N-1, and the write index ends
\* at w0+N.
C2_ContiguousReservation ==
    LET called == { c \in Callers : rsv[c] # -1 }
        N == Cardinality(called)
    IN  /\ \A c, d \in called : c # d => rsv[c] # rsv[d]
        /\ { rsv[c] : c \in called } = w0 .. (w0 + N - 1)
        /\ write_index = w0 + N

C2_Witness ==
    /\ \A c \in Callers : rsv[c] # -1
    /\ w0 > 0
    /\ NumCallers < size

\* Whether n is a power of two, by the definition.
IsPowerOfTwo(n) == \E k \in 0 .. 11 : n = Pow2(k)

\* The size passes every check Queue::create makes against what the agent
\* reports.
CreateSizeAccepted(in) ==
    /\ in.size # 0
    /\ IsPowerOfTwo(in.size)
    /\ in.min_size.status = "SUCCESS" => in.size >= in.min_size.value
    /\ in.max_size.status = "SUCCESS" => in.size <= in.max_size.value

\* The size is zero, no power of two, below the reported minimum or above
\* the reported maximum.
CreateSizeRejected(in) ==
    \/ in.size = 0
    \/ ~IsPowerOfTwo(in.size)
    \/ (in.min_size.status = "SUCCESS" /\ in.size < in.min_size.value)
    \/ (in.max_size.status = "SUCCESS" /\ in.size > in.max_size.value)

\* C9: Queue::create returns QueueCreationFailed without calling
\* hsa_queue_create for every rejected size, and calls hsa_queue_create only
\* for sizes that pass all the checks.
C9_CreateValidatesSize ==
    (api_in.op = "Queue::create" /\ api_result # NotCalled) =>
        /\ CreateSizeRejected(api_in) =>
               /\ api_result = Err("QueueCreationFailed")
               /\ "hsa_queue_create" \notin Range(api_calls)
        /\ "hsa_queue_create" \in Range(api_calls) => CreateSizeAccepted(api_in)

C9_Witness ==
    /\ api_in.op = "Queue::create"
    /\ api_in.size = 100
    /\ api_in.min_size = QueryOk(1)
    /\ api_in.max_size = QueryOk(1024)
    /\ api_in.status = "SUCCESS"
    /\ api_result = Err("QueueCreationFailed")
    /\ "hsa_queue_create" \notin Range(api_calls)

\* C10: allocate fails without calling hsa_memory_allocate when the region
\* disallows runtime allocation or the size exceeds the region's maximum,
\* and calls hsa_memory_allocate when allocation is allowed and the size is
\* within the maximum.
C10_AllocateChecks ==
    (api_in.op = "MemoryRegion::allocate" /\ api_result # NotCalled) =>
        LET in == api_in
            disallowed == in.alloc_allowed = QueryOk(FALSE)
            allowed == in.alloc_allowed = QueryOk(TRUE)
            known_max == in.max_alloc_size.status = "SUCCESS"
            called == "hsa_memory_allocate" \in Range(api_calls)
        IN  /\ disallowed => (~api_result.ok /\ ~called)
            /\ (known_max /\ in.size > in.max_alloc_size.value) =>
                   (~api_result.ok /\ ~called)
            /\ (allowed /\ known_max /\ in.size <= in.max_alloc_size.value) => called
            /\ (allowed /\ in.max_alloc_size = QueryOk(1024) /\ in.size = 1024) => called
            /\ (allowed /\ in.max_alloc_size = QueryOk(1024) /\ in.size = 1025) =>
                   (~api_result.ok /\ ~called)

C10_Witness ==
    /\ api_in.op = "MemoryRegion::allocate"
    /\ api_in.alloc_allowed = QueryOk(TRUE)
    /\ api_in.max_alloc_size = QueryOk(1024)
    /\ api_in.size = 1024
    /\ api_in.status = "SUCCESS"
    /\ api_result = Ok
    /\ "hsa_memory_allocate" \in Range(api_calls)

\* C11: every error allocate returns is of kind MemoryAllocationFailed.
C11_ErrorsAreAllocationFailed ==
    (api_in.op = "MemoryRegion::allocate" /\ api_result # NotCalled /\ ~api_result.ok)
        => api_result = Err("MemoryAllocationFailed")

\* C12: a Memory returned by a successful allocate has a non-null address
\* and the requested size, for as long as it exists.
C12_NonNullRequestedSize ==
    mem_state # "none" => (mem.ptr # 0 /\ mem.size = api_in.size)

Frees == { i \in 1 .. Len(mem_log) : mem_log[i].fn = "hsa_memory_free" }

\* C13: the address of an allocation is freed exactly once, by the drop of
\* its Memory; a null address is never freed, nothing is freed twice, and a
\* failing free does not stop the drop.
C13_FreedExactlyOnce ==
    /\ \A i \in Frees : mem_log[i].ptr # 0 /\ mem_log[i].ptr = mem.ptr
    /\ mem_state # "dropped" => Frees = {}
    /\ (mem_state = "dropped" /\ mem.ptr # 0) => Cardinality(Frees) = 1
    /\ (mem_state = "dropped" /\ mem.ptr = 0) => Frees = {}
    /\ mem_op.op = "drop" => mem_state = "dropped"

C13_Witness ==
    /\ mem_state = "dropped"
    /\ mem.ptr # 0
    /\ mem_op.op = "drop"
    /\ mem_op.status # "SUCCESS"
    /\ Cardinality(Frees) = 1

\* C14: allow_access with no agents returns Ok and makes no runtime call;
\* with agents it makes exactly one grant call carrying all the handles in
\* order and this address, and returns Ok exactly when that call succeeds.
C14_AllowAccess ==
    mem_op.op = "allow_access" =>
        /\ mem_op.agents = << >> => (mem_op.result = Ok /\ mem_op.calls = << >>)
        /\ mem_op.agents # << >> =>
               /\ Len(mem_op.calls) = 1
               /\ mem_op.calls[1].fn = "hsa_amd_agents_allow_access"
               /\ mem_op.calls[1].agents = mem_op.agents
               /\ mem_op.calls[1].num_agents = Len(mem_op.agents)
               /\ mem_op.calls[1].ptr = mem.ptr
               /\ mem_op.result.ok <=> mem_op.status = "SUCCESS"

C14_Witness ==
    /\ mem_op.op = "allow_access"
    /\ mem_op.agents = <<2, 1>>
    /\ mem_op.status = "ERROR_INVALID_AGENT"
    /\ mem_op.result = Err("InvalidAgent")
    /\ Len(mem_op.calls) = 1

\* C15: the access set is empty after allocate and changes only in a
\* successful allow_access with a non-empty agent list.
C15_AccessSetFrame ==
    /\ [](mem_log = << >> => access = {})
    /\ [][ access' # access =>
             /\ mem_op'.op = "allow_access"
             /\ mem_op'.agents # << >>
             /\ mem_op'.result = Ok ]_vars

C15_Witness ==
    /\ access = {1, 2}
    /\ mem_op.op = "is_null"
    /\ mem_state = "live"

ReportsGpu(i) ==
    api_in.agents[i].status = "SUCCESS" /\ api_in.agents[i].value = "GPU"

QueryFails(i) == api_in.agents[i].status # "SUCCESS"

FindGpuReturned == api_in.op = "Agent::find_gpu" /\ api_result # NotCalled

\* C16: find_gpu returns the first agent, in enumeration order, whose device
\* kind query reports GPU, and AgentNotFound exactly when the enumeration
\* completes with no agent reporting GPU.
C16_FirstGpu ==
    FindGpuReturned =>
        LET n == Len(api_in.agents)
            Complete == api_in.enum_status = "SUCCESS" /\ \A i \in 1 .. n : ~QueryFails(i)
        IN
        /\ api_result.ok =>
               /\ api_result.value \in 1 .. n
               /\ ReportsGpu(api_result.value)
               /\ \A j \in 1 .. api_result.value - 1 : ~ReportsGpu(j)
        /\ \A i \in 1 .. n :
               ( /\ api_in.enum_status = "SUCCESS"
                 /\ ReportsGpu(i)
                 /\ \A j \in 1 .. i - 1 : ~ReportsGpu(j) /\ ~QueryFails(j) )
                   => api_result = OkWith(i)
        /\ api_result = Err("AgentNotFound")
               <=> (Complete /\ \A i \in 1 .. n : ~ReportsGpu(i))

C16_Witness ==
    /\ FindGpuReturned
    /\ Len(api_in.agents) = 3
    /\ ~ReportsGpu(1)
    /\ ReportsGpu(2)
    /\ ReportsGpu(3)
    /\ api_result = OkWith(2)

\* C17: the visitor stops the enumeration at the first GPU, so no agent after
\* it is queried, and find_gpu takes the early-break status as success.
C17_EarlyBreak ==
    FindGpuReturned =>
        \A i \in 1 .. Len(api_in.agents) :
            (i \in Range(api_calls) /\ ReportsGpu(i)) =>
                /\ api_calls = [k \in 1 .. i |-> k]
                /\ FindGpuOutcome(api_in).status = "INFO_BREAK"
                /\ api_result.ok

C17_Witness ==
    /\ FindGpuReturned
    /\ Len(api_in.agents) = 3
    /\ ReportsGpu(1)
    /\ api_calls = <<1>>
    /\ api_result = OkWith(1)

Destroys == { i \in 1 .. Len(sig_log) : sig_log[i].fn = "hsa_signal_destroy" }

SignalCreateReturned == api_in.op = "Signal::create" /\ api_result # NotCalled

\* C18: a Signal returned by create has a non-zero handle, a runtime success
\* with handle 0 is reported as SignalOperationFailed, the handle is
\* destroyed exactly once, on drop, and destroy is never called with 0.
C18_SignalHandle ==
    /\ sig_state # "none" => (sig # 0 /\ api_result = OkWith(sig))
    /\ (SignalCreateReturned /\ api_in.status = "SUCCESS" /\ api_in.handle = 0)
           => api_result = Err("SignalOperationFailed")
    /\ (SignalCreateReturned /\ api_result.ok) => sig_state # "none"
    /\ \A i \in Destroys : sig_log[i].handle # 0 /\ sig_log[i].handle = sig
    /\ sig_state # "dropped" => Destroys = {}
    /\ sig_state = "dropped" => Cardinality(Destroys) = 1

C18_Witness ==
    /\ sig_state = "dropped"
    /\ sig = 7
    /\ sig_op.op = "drop"
    /\ sig_op.status # "SUCCESS"
    /\ sig_log = << DestroyCall(7) >>

WaitingEqZero ==
    wait.pc = "blocked" /\ wait.fn = "wait_eq" /\ wait.value = 0

\* C19: a thread blocked in wait_eq(0, timeout) on a signal that has been
\* set to 0 and stays 0 is woken by the condition and returns 0.
C19_WaitEqZeroReturns ==
    (WaitingEqZero /\ sig_value = 0)
        ~> ( \/ sig_value # 0
             \/ wait.pc = "returned" /\ wait.ret = 0 /\ wait.by = "condition" )

C19_Witness ==
    /\ wait.pc = "returned"
    /\ wait.fn = "wait_eq"
    /\ wait.value = 0
    /\ wait.ret = 0
    /\ wait.by = "condition"
    /\ api_in.initial_value = 1

\* The condition a wait method is documented to wait for.
Waited(fn, x, v) ==
    CASE fn = "wait_eq" -> x = v
      [] fn = "wait_ne" -> x # v
      [] fn = "wait_lt" -> x < v
      [] fn = "wait_gte" -> x >= v

\* C20: every wait_eq/ne/lt/gte returns, what it returns is the observed
\* signal value and nothing else, and after a timeout that value does not
\* satisfy the waited condition.
C20_WaitReturnsObserved ==
    /\ [](wait.pc = "returned" =>
            /\ wait.ret \in SignalValues
            /\ wait.ret = wait.observed
            /\ wait.by = "timeout" => ~Waited(wait.fn, wait.ret, wait.value)
            /\ wait.by = "condition" => Waited(wait.fn, wait.ret, wait.value))
    /\ (wait.pc = "blocked" ~> wait.pc = "returned")

C20_Witness ==
    /\ wait.pc = "returned"
    /\ wait.fn = "wait_lt"
    /\ wait.value = 0
    /\ wait.by = "timeout"
    /\ wait.ret = 1

\* The number of positions of seq that hold x.
Count(seq, x) == Cardinality({ i \in 1 .. Len(seq) : seq[i] = x })

ContextCalls == api_calls \o ctx_log

ContextNewReturned == api_in.op = "HsaContext::new" /\ api_result # NotCalled

\* C21: every successful init of HsaContext::new is matched by exactly one
\* shutdown: when new has failed after the init, or the context has been
\* dropped, shutdown has been called once.
C21_InitMatchedByShutdown ==
    /\ Count(ContextCalls, "hsa_shut_down") <= Count(ContextCalls, "hsa_init")
    /\ ( /\ ContextNewReturned
         /\ api_in.init_status = "SUCCESS"
         /\ (~api_result.ok \/ ctx = "dropped") )
           => Count(ContextCalls, "hsa_shut_down") = 1

StatusesSeen ==
    CASE api_in.op = "Queue::create" ->
             (IF "QUEUE_MIN_SIZE" \in Range(api_calls) THEN {api_in.min_size.status} ELSE {})
             \cup (IF "QUEUE_MAX_SIZE" \in Range(api_calls) THEN {api_in.max_size.status} ELSE {})
             \cup (IF "hsa_queue_create" \in Range(api_calls) THEN {api_in.status} ELSE {})
      [] api_in.op = "MemoryRegion::allocate" ->
             (IF "RUNTIME_ALLOC_ALLOWED" \in Range(api_calls) THEN {api_in.alloc_allowed.status} ELSE {})
             \cup (IF "ALLOC_MAX_SIZE" \in Range(api_calls) THEN {api_in.max_alloc_size.status} ELSE {})
             \cup (IF "hsa_memory_allocate" \in Range(api_calls) THEN {api_in.status} ELSE {})
      [] OTHER -> {}

\* C23: an operation that is not a destructor returns Err whenever one of
\* the runtime calls it made returned a status other than SUCCESS.
C23_NoSwallowedFailure ==
    (api_result # NotCalled /\ StatusesSeen \ {"SUCCESS"} # {}) => ~api_result.ok

\* C24: an operation during which a runtime call returned the fatal status
\* returns an error of kind Fatal.
C24_FatalIsFatal ==
    (api_result # NotCalled /\ "ERROR_FATAL" \in StatusesSeen)
        => api_result = Err("Fatal")

\* C25: a failing release does not stop a teardown: the drop of a context
\* shuts the runtime down whatever the queue destroy returned, the drop of
\* an executable destroys it whatever the reader destroy returned, and the
\* drops of Queue, Signal and Memory return whatever the release returned.
C25_TeardownContinues ==
    (api_in.op = "drop" /\ api_result # NotCalled) =>
        /\ api_result = Dropped
        /\ api_in.kind = "HsaContext" =>
               /\ api_calls[Len(api_calls)] = "hsa_shut_down"
               /\ api_in.present => api_calls = << "hsa_queue_destroy", "hsa_shut_down" >>
        /\ api_in.kind = "Executable" =>
               /\ api_calls[Len(api_calls)] = "hsa_executable_destroy"
               /\ api_in.present =>
                      api_calls = << "hsa_code_object_reader_destroy", "hsa_executable_destroy" >>
        /\ api_in.kind = "Queue" => api_calls = << "hsa_queue_destroy" >>
        /\ api_in.kind = "Signal" => api_calls = << "hsa_signal_destroy" >>
        /\ (api_in.kind = "Memory" /\ api_in.handle # 0) => api_calls = << "hsa_memory_free" >>

C25_Witness ==
    /\ api_in.op = "drop"
    /\ api_in.kind = "Executable"
    /\ api_in.present
    /\ api_in.first_status = "ERROR_FATAL"
    /\ api_calls = << "hsa_code_object_reader_destroy", "hsa_executable_destroy" >>

AllSteps ==
    PacketFields \cup {"add_write_index", "clear", "store_write_index", "doorbell"}

\* The dispatch of p has executed its last statement.
Completed(p) == Range(wrote[p]) = AllSteps

\* C26: dispatch has no failure path: once it has reserved a slot its next
\* statement can always run, whatever the queue holds, and it goes on to
\* return Ok having populated, published and rung the doorbell.
C26_DispatchCompletes ==
    /\ [](pc[1] # 0 => ENABLED DispatchStep(1))
    /\ [](pc[1] = NumSteps + 1 => Completed(1))
    /\ (Running(1) ~> (pc[1] = 0 /\ Completed(1)))

C26_Witness ==
    /\ pc[1] = 0
    /\ Completed(1)
    /\ ndisp = MaxDispatches
    /\ read_index < ndisp

LastStep(p) == IF Len(wrote[p]) = 0 THEN "none" ELSE wrote[p][Len(wrote[p])]

\* C27: a dispatch that reserved i stores i + 1 into the write index and then
\* i into the doorbell; with one producer, when it returns the write index is
\* i + 1 and the doorbell is i.
C27_PublishThenDoorbell ==
    LET i == packet_id[1] IN
    /\ LastStep(1) = "store_write_index" => write_index = i + 1
    /\ LastStep(1) = "doorbell" => (doorbell = i /\ write_index = i + 1)
    /\ (pc[1] = 0 /\ Completed(1)) => (write_index = i + 1 /\ doorbell = i)

C27_Witness ==
    /\ pc[1] = 0
    /\ Completed(1)
    /\ packet_id[1] = 1
    /\ write_index = 2
    /\ doorbell = 1

PacketType(header) == (header \div Pow2(HSA_PACKET_HEADER_TYPE)) % 256

\* C30: from the clear on, the slot of a dispatch never shows the kernel
\* dispatch type in its header while a packet field is still unwritten.
C30_NoHalfWrittenDispatchPacket ==
    \A p \in Producers :
        ( /\ Running(p)
          /\ "clear" \in Range(wrote[p])
          /\ PacketType(ring[Slot(packet_id[p])]["header"]) = HSA_PACKET_TYPE_KERNEL_DISPATCH )
            => PacketFields \subseteq Range(wrote[p])

AboutToWrite(p) == Step(p) = "clear" \/ Step(p) \in PacketFields

\* C31: with every producer checking load_write_index() - load_read_index()
\* < C right before each dispatch, write index - read index never exceeds C
\* and no producer writes a slot whose previous packet (C indexes earlier)
\* the device has not consumed.
C31_CheckedBackpressure ==
    /\ write_index - read_index <= size
    /\ \A p \in Producers :
           AboutToWrite(p) => packet_id[p] - size < read_index

\* No producer but p has made a check or entered dispatch.
SoleProducer(p) ==
    \A q \in Producers \ {p} : chk[q] = NoCheck /\ pc[q] = 0 /\ wrote[q] = << >>

\* C31 as amended: while a single producer uses the queue and makes the
\* check before each dispatch, write index - read index never exceeds C and
\* it never writes a slot whose previous packet the device has not consumed.
C31_SoleProducerBackpressure ==
    \A p \in Producers :
        SoleProducer(p) =>
            /\ write_index - read_index <= size
            /\ AboutToWrite(p) => packet_id[p] - size < read_index

\* The sole producer finds the queue full and then, after the device has
\* consumed a packet, dispatches into the freed slot.
C31_Witness ==
    /\ SoleProducer(1)
    /\ AboutToWrite(1)
    /\ packet_id[1] = size
    /\ read_index = 1
    /\ write_index - read_index = size

\* The producer executes the ring write it is about to make.
Writes(p) == AboutToWrite(p) /\ pc'[p] = pc[p] + 1

\* C32: the single producer's k-th dispatch (k = ndisp - 1) reserves index
\* k, every write it makes goes to ring slot k mod C and to no other slot,
\* and it leaves the write index at k + 1.
C32_SlotOfIndex ==
    /\ [](Reserved(1) => packet_id[1] = ndisp - 1)
    /\ [](pc[1] = NumSteps + 1 => write_index = ndisp)
    /\ [][ Writes(1) =>
             /\ \A s \in DOMAIN ring :
                    s # packet_id[1] % size => ring'[s] = ring[s]
             /\ Step(1) = "clear" => ring'[packet_id[1] % size] = ZeroPacket
             /\ Step(1) \in PacketFields =>
                    ring'[packet_id[1] % size][Step(1)] = FieldValue(Step(1), disp[1]) ]_vars

\* Dispatch C (the third, for C = 2) has written its packet into slot 0,
\* the slot of dispatch 0, and slot 1 still holds the packet of dispatch 1.
C32_Witness ==
    /\ packet_id[1] = size
    /\ Step(1) = "store_write_index"
    /\ disp[1].grid_size = <<64, 64, 64>>
    /\ ring[0].grid_size_y = 64
    /\ ring[1].grid_size_y = 1
    /\ ring[1].header # 0

\* What the runtime's answers say about region i of the agent.
IsKernarg(r) == r.segment.status = "SUCCESS" /\ r.segment.value = "KERNARG"

IsGlobal(r) == r.segment.status = "SUCCESS" /\ r.segment.value = "GLOBAL"

IsFineGlobal(r) == IsGlobal(r) /\ r.flags.status = "SUCCESS" /\ (r.flags.value \div 2) % 2 = 1

IsCoarseGlobal(r) == IsGlobal(r) /\ r.flags.status = "SUCCESS" /\ (r.flags.value \div 2) % 2 = 0

Some(regions, Is(_)) == \E i \in 1 .. Len(regions) : Is(regions[i])

\* new got as far as a complete classification: the runtime initialised, a
\* GPU agent was found, its regions were enumerated and every segment and
\* flags query of the classification succeeded.
RegionsEnumerated(in) ==
    /\ in.init_status = "SUCCESS"
    /\ in.agents[1] = QueryOk("GPU")
    /\ in.regions_status = "SUCCESS"
    /\ \A i \in 1 .. Len(in.regions) :
           /\ in.regions[i].segment.status = "SUCCESS"
           /\ IsGlobal(in.regions[i]) => in.regions[i].flags.status = "SUCCESS"

\* C33: HsaContext::new returns MemoryRegionNotFound exactly when the
\* regions were enumerated and classified and no GLOBAL region is
\* fine-grained or none is coarse-grained; no queue has been created then;
\* without a KERNARG region new still succeeds, with kernarg_region None.
C33_MemoryRegionNotFound ==
    ContextNewReturned =>
        /\ api_result = Err("MemoryRegionNotFound") <=>
               /\ RegionsEnumerated(api_in)
               /\ ~Some(api_in.regions, IsFineGlobal) \/ ~Some(api_in.regions, IsCoarseGlobal)
        /\ api_result = Err("MemoryRegionNotFound") =>
               "hsa_queue_create" \notin Range(api_calls)
        /\ ( /\ RegionsEnumerated(api_in)
             /\ Some(api_in.regions, IsFineGlobal)
             /\ Some(api_in.regions, IsCoarseGlobal)
             /\ ~Some(api_in.regions, IsKernarg) ) =>
               /\ api_result.kind \in {"Ok", "QueueCreationFailed"}
               /\ "QUEUE_MIN_SIZE" \in Range(api_calls)
               /\ api_result.ok => ctx_regions.kernarg = 0

\* new has succeeded for an agent with a fine-grained and a coarse-grained
\* GLOBAL region, a GROUP region and no KERNARG region.
C33_Witness ==
    /\ ContextNewReturned
    /\ api_result.ok
    /\ ctx = "live"
    /\ Len(api_in.regions) = 3
    /\ ~Some(api_in.regions, IsKernarg)
    /\ api_in.regions[3].segment.value = "GROUP"
    /\ ctx_regions.kernarg = 0
    /\ ctx_regions.fine # 0
    /\ ctx_regions.coarse # 0

\* The last region of the enumeration that Is holds of, 0 when there is none.
LastSuch(regions, Is(_)) ==
    IF Some(regions, Is)
    THEN CHOOSE i \in 1 .. Len(regions) :
             Is(regions[i]) /\ \A j \in i + 1 .. Len(regions) : ~Is(regions[j])
    ELSE 0

\* C34: the context new returns holds as kernarg_region the last KERNARG
\* region, as fine_grained_region the last GLOBAL region with the
\* FINE_GRAINED flag and as coarse_grained_region the last GLOBAL region
\* without it; regions of other segments are in no field, and no region is
\* in two fields.
C34_RegionClassification ==
    (ContextNewReturned /\ api_result.ok) =>
        /\ ctx_regions.kernarg = LastSuch(api_in.regions, IsKernarg)
        /\ ctx_regions.fine = LastSuch(api_in.regions, IsFineGlobal)
        /\ ctx_regions.coarse = LastSuch(api_in.regions, IsCoarseGlobal)
        /\ ctx_regions.fine # ctx_regions.coarse
        /\ ctx_regions.kernarg \notin {ctx_regions.fine, ctx_regions.coarse}

\* Two fine-grained GLOBAL regions, one of them also flagged coarse, and a
\* coarse one: the later fine-grained region is kept.
C34_Witness ==
    /\ ContextNewReturned
    /\ api_result.ok
    /\ Len(api_in.regions) = 3
    /\ api_in.regions[1].flags.value = 2
    /\ api_in.regions[2].flags.value = 1
    /\ api_in.regions[3].flags.value = 6
    /\ IsGlobal(api_in.regions[3])
    /\ ctx_regions = [kernarg |-> 0, fine |-> 3, coarse |-> 2]



\* The example program has made the call on the value, and it succeeded.
Happened(call, of) == Event(call, of, TRUE) \in Range(ex.log)

\* The buffers whose addresses the example hands to the device: the three
\* pointers in KernelArgs and the dispatch's kernarg_address.
DeviceBuffers == {"output_buffer", "camera_buffer", "disk_buffer", "kernargs_buffer"}

\* C35: once the example has dispatched, allow_access has been called on
\* every buffer handed to the device, before the dispatch; and the wait on
\* the completion signal comes after the dispatch.
C35_AccessBeforeDispatch ==
    /\ Happened("dispatch", "queue") =>
           \A b \in DeviceBuffers :
               Before(ex.log, Event("allow_access", b, TRUE), Event("dispatch", "queue", TRUE))
    /\ \A ok \in BOOLEAN :
           Event("wait_eq", "completion_signal", ok) \in Range(ex.log) =>
               Before(ex.log, Event("dispatch", "queue", TRUE),
                      Event("wait_eq", "completion_signal", ok))

\* The local has been created by a successful constructor call.
Created(l) ==
    \E c \in {"HsaContext::new", "Executable::create", "allocate", "Signal::create"} :
        Happened(c, l)

DropOf(l) == Event("drop", l, TRUE)

\* C36: on every exit of the example after HsaContext::new succeeded, each
\* buffer, the completion signal and the executable that was created is
\* dropped, once, before the context is; the context's drop is the last
\* thing main does, and nothing is dropped that was not created.
C36_ContextDroppedLast ==
    /\ \A l \in Range(ExampleLocals) :
           /\ Count(ex.log, DropOf(l)) <= 1
           /\ DropOf(l) \in Range(ex.log) => Created(l)
    /\ DropOf("ctx") \in Range(ex.log) =>
           \A l \in Range(ExampleLocals) \ {"ctx"} :
               Created(l) => Before(ex.log, DropOf(l), DropOf("ctx"))
    /\ (ex.pc = Exited /\ Created("ctx")) =>
           /\ ex.live = {}
           /\ ex.log[Len(ex.log)] = DropOf("ctx")

\* main has returned early from the wait with every resource created, and
\* has dropped them all.
C36_Witness ==
    /\ ex.pc = Exited
    /\ ex.result = "Err"
    /\ Event("wait_eq", "completion_signal", FALSE) \in Range(ex.log)
    /\ \A l \in Range(ExampleLocals) : Created(l) /\ DropOf(l) \in Range(ex.log)

\* C37: no reader made by load_code_object is destroyed twice, and once the
\* Executable has been dropped every reader made has been destroyed exactly
\* once.
C37_ReadersDestroyedOnce ==
    /\ \A r \in 1 .. exe.made : Count(exe.destroyed, r) <= 1
    /\ exe.state = "dropped" =>
           \A r \in 1 .. exe.made : Count(exe.destroyed, r) = 1

\* C38: a Queue that create returned holds a non-null pointer, a runtime
\* success with a null pointer is QueueCreationFailed, the pointer goes to
\* hsa_queue_destroy exactly once, at the drop, and after an error no queue
\* was created by the runtime.
C38_QueuePointer ==
    /\ que_val.state # "none" => api_result.ok /\ que_val.ptr # 0
    /\ ( /\ api_result # NotCalled
         /\ "hsa_queue_create" \in Range(api_calls)
         /\ api_in.status = "SUCCESS" /\ api_in.queue_ptr_null ) =>
           api_result = Err("QueueCreationFailed")
    /\ que_val.state = "live" => que_val.destroyed = << >>
    /\ que_val.state = "dropped" => que_val.destroyed = << que_val.ptr >>
    /\ (api_result # NotCalled /\ ~api_result.ok) =>
           /\ que_val = NoQueue
           /\ ~( /\ "hsa_queue_create" \in Range(api_calls)
                 /\ api_in.status = "SUCCESS"
                 /\ ~api_in.queue_ptr_null )

\* The runtime created the queue and the Queue create returned was dropped.
C38_Witness ==
    /\ que_val = [state |-> "dropped", ptr |-> 4096, destroyed |-> << 4096 >>]
    /\ api_result.ok
    /\ api_calls[Len(api_calls)] = "hsa_queue_create"

\* The producer executes its doorbell store.
Rings(p) == Step(p) = "doorbell" /\ pc'[p] = pc[p] + 1

\* The producer's dispatch has stored its write index.
Published(p) == "store_write_index" \in Range(wrote[p])

\* C39: the values stored into the doorbell never decrease, and a doorbell
\* store carries the highest packet index any producer has published.
C39_DoorbellMonotonic ==
    [][ /\ doorbell' >= doorbell
        /\ \A p \in Producers :
               Rings(p) => \A q \in Producers : Published(q) => doorbell' >= packet_id[q] ]_vars

\* C39 as amended: while a single producer dispatches on the queue, each
\* doorbell store is at least the previous one and carries the highest index
\* published, write index - 1.
C39_SoleProducerDoorbell ==
    [][ \A p \in Producers :
            (SoleProducer(p) /\ Rings(p)) =>
                /\ doorbell' >= doorbell
                /\ doorbell' = write_index - 1 ]_vars

\* The sole producer has rung the doorbell for its third dispatch.
C39_Witness ==
    /\ SoleProducer(1)
    /\ ndisp = MaxDispatches
    /\ pc[1] = NumSteps + 1
    /\ doorbell = MaxDispatches - 1
    /\ write_index = MaxDispatches

====
